---- MODULE Spec2Model ----
(***************************************************************************)
(* Shift registry (rota) and holiday decisions of the solura backend.      *)
(*                                                                         *)
(* The tables of one tenant database are the state.  Every HTTP handler is *)
(* one action: it reads the tables, answers through res, and performs its  *)
(* writes.  Time-of-day strings are sequences of character codes, so that  *)
(* the regular expression test, split(':'), Number(), substring(0, 5) and  *)
(* the string comparison of the handlers are computed as the code does.    *)
(***************************************************************************)
EXTENDS Integers, Sequences, FiniteSets, TLC

VARIABLES
    rota,           \* table rota of the tenant: a set of rows
    req,            \* the last request handled
    res,            \* the response to it
    holiday,        \* table Holiday of the tenant: id -> row
    notifications,  \* table Notifications of the tenant: a sequence of rows
    cand,           \* overlap resolver run on its own: the candidate interval
    exist,          \* ... the existing interval
    verdict,        \* ... the decisions of the resolver on (cand, exist)
    idProbe,        \* locals of the last id-allocation loop that ran
    shiftRequests,  \* table ShiftRequests of the tenant: a set of rows
    clock,          \* the server's clock (new Date()), in ticks
    overview,       \* the body of the last answer of GET /holidays
    accrual,        \* calcAccrued run on its own: inputs and results
    inflight        \* requests handled step by step: request id -> its locals

vars == <<rota, req, res, holiday, notifications, cand, exist, verdict,
          idProbe, shiftRequests, clock, overview, accrual, inflight>>

rotaVars == <<rota>>
holidayVars == <<holiday, notifications>>
resolverVars == <<cand, exist, verdict>>
requestVars == <<shiftRequests>>
leaveVars == <<clock, overview, accrual>>

\* No request is being handled step by step.
NoInflight == <<>>

(***************************************************************************)
(* Bounds of the model and constants of the program.                       *)
(***************************************************************************)
MaxId == 3
MaxAttempts == 10
MinutesPerDay == 1440

Ids == 1..MaxId

(***************************************************************************)
(* Strings as sequences of character codes.                                *)
(***************************************************************************)
Digit0 == 48
Digit9 == 57
Colon == 58

IsDigit(c) == c >= Digit0 /\ c <= Digit9

\* "HH:mm" as a client writes it for hour h and minute m.
HHMM(h, m) ==
    <<Digit0 + (h \div 10), Digit0 + (h % 10), Colon,
      Digit0 + (m \div 10), Digit0 + (m % 10)>>

\* /^([0-1]?[0-9]|2[0-3]):[0-5][0-9]$/.test(s)
timeRegexTest(s) ==
    \E k \in {1, 2} :
        /\ Len(s) = k + 3
        /\ IF k = 1
           THEN IsDigit(s[1])
           ELSE \/ s[1] \in {Digit0, Digit0 + 1} /\ IsDigit(s[2])
                \/ s[1] = Digit0 + 2 /\ s[2] >= Digit0 /\ s[2] <= Digit0 + 3
        /\ s[k + 1] = Colon
        /\ s[k + 2] >= Digit0 /\ s[k + 2] <= Digit0 + 5
        /\ IsDigit(s[k + 3])

\* s.split(':'): the parts of s between colons.
RECURSIVE SplitFrom(_, _, _)
SplitFrom(s, i, part) ==
    IF i > Len(s) THEN <<part>>
    ELSE IF s[i] = Colon THEN <<part>> \o SplitFrom(s, i + 1, <<>>)
    ELSE SplitFrom(s, i + 1, Append(part, s[i]))

Split(s) == SplitFrom(s, 1, <<>>)

\* Number(p) for a string of decimal digits (Number("") is 0).
RECURSIVE ToNumber(_)
ToNumber(p) ==
    IF Len(p) = 0 THEN 0
    ELSE 10 * ToNumber(SubSeq(p, 1, Len(p) - 1)) + (p[Len(p)] - Digit0)

\* const [hour, min] = t.split(':').map(Number); hour * 60 + min
TotalMinutes(t) ==
    LET parts == Split(t)
    IN  ToNumber(parts[1]) * 60 + ToNumber(parts[2])

Hour(t) == ToNumber(Split(t)[1])
Minute(t) == ToNumber(Split(t)[2])

\* s.substring(0, 5)
Substring05(s) == SubSeq(s, 1, IF Len(s) < 5 THEN Len(s) ELSE 5)

\* a < b on JavaScript strings: lexicographic on the code units.
RECURSIVE StrLess(_, _)
StrLess(a, b) ==
    IF Len(b) = 0 THEN FALSE
    ELSE IF Len(a) = 0 THEN TRUE
    ELSE IF a[1] # b[1] THEN a[1] < b[1]
    ELSE StrLess(Tail(a), Tail(b))

ensureTimeWithSeconds(time) ==
    IF Len(time) = 0 THEN HHMM(0, 0) \o <<Colon, Digit0, Digit0>>
    ELSE IF (\E i \in 1..Len(time) : time[i] = Colon) /\ Len(Split(time)) = 2
         THEN time \o <<Colon, Digit0, Digit0>>
         ELSE time

(***************************************************************************)
(* The overlap decision of POST /save-shift on minute values.              *)
(***************************************************************************)
SaveShiftOverlap(newStartMin, newEndMin, existingStartTotal, existingEndTotal) ==
    IF newStartMin < newEndMin /\ existingStartTotal < existingEndTotal
    THEN newStartMin < existingEndTotal /\ newEndMin > existingStartTotal
    ELSE IF newStartMin > newEndMin
    THEN LET newEndMinNextDay == newEndMin + MinutesPerDay
         IN  IF existingStartTotal < existingEndTotal
             THEN newStartMin < existingEndTotal \/ newEndMinNextDay > existingStartTotal
             ELSE LET existingEndTotalNextDay == existingEndTotal + MinutesPerDay
                  IN  newStartMin < existingEndTotalNextDay
                      /\ newEndMinNextDay > existingStartTotal
    ELSE IF existingStartTotal > existingEndTotal
    THEN LET existingEndTotalNextDay == existingEndTotal + MinutesPerDay
         IN  newStartMin < existingEndTotalNextDay /\ newEndMin > existingStartTotal
    ELSE FALSE

\* The overlap test of POST /add-another-shift: a comparison of strings.
AddAnotherOverlap(startTime, endTime, existingStart, existingEnd) ==
    \/ StrLess(startTime, existingEnd) /\ StrLess(existingStart, endTime)
    \/ StrLess(existingStart, endTime) /\ StrLess(startTime, existingEnd)

(***************************************************************************)
(* The tenant databases and the id generator.                              *)
(***************************************************************************)
TenantDb == "bbuonaoxford"
OtherDb == "100%pastaoxford"
databasesConfig == {OtherDb, TenantDb}

\* getPool(db) throws for a name without configuration.
getPoolThrows(db) == db \notin databasesConfig

\* The loop giving up one attempt early: while (codeExists && attempts < 9).
RECURSIVE ProbeLoopNineAttempts(_, _, _)
ProbeLoopNineAttempts(picks, attempts, usedIds) ==
    IF attempts >= MaxAttempts - 1
    THEN [codeExists |-> TRUE, uniqueId |-> picks[attempts], attempts |-> attempts,
          draws |-> SubSeq(picks, 1, attempts)]
    ELSE IF picks[attempts + 1] \in usedIds
         THEN ProbeLoopNineAttempts(picks, attempts + 1, usedIds)
         ELSE [codeExists |-> FALSE, uniqueId |-> picks[attempts + 1],
               attempts |-> attempts + 1, draws |-> SubSeq(picks, 1, attempts + 1)]

\* while (codeExists && attempts < 10) { uniqueId = generateUniqueCode(); ... }
\* picks[i] is the value generateUniqueCode() returns at its i-th call; draws
\* are the values drawn until the loop ended.
RECURSIVE ProbeLoop(_, _, _)
ProbeLoop(picks, attempts, usedIds) ==
    IF attempts >= MaxAttempts
    THEN [codeExists |-> TRUE, uniqueId |-> picks[attempts], attempts |-> attempts,
          draws |-> SubSeq(picks, 1, attempts)]
    ELSE IF picks[attempts + 1] \in usedIds
         THEN ProbeLoop(picks, attempts + 1, usedIds)
         ELSE [codeExists |-> FALSE, uniqueId |-> picks[attempts + 1],
               attempts |-> attempts + 1, draws |-> SubSeq(picks, 1, attempts + 1)]

\* Runs of the generator: ten draws of id 1; nine draws of id 1 and then
\* id 2; the ids in ascending order.
PickSeqs ==
    { [i \in 1..MaxAttempts |-> 1],
      [i \in 1..MaxAttempts |-> IF i < MaxAttempts THEN 1 ELSE 2],
      [i \in 1..MaxAttempts |-> IF i < MaxId THEN i ELSE MaxId] }

(***************************************************************************)
(* Responses.                                                              *)
(***************************************************************************)
Response(op, status, message, id) ==
    [op |-> op, status |-> status, message |-> message, id |-> id]

NoResponse == Response("none", 0, "", 0)
NoRequest == [db |-> ""]
NoProbe == [codeExists |-> FALSE, uniqueId |-> 0, attempts |-> 0, draws |-> <<>>]
NoOverview == [success |-> FALSE]
NoAccrual == [computed |-> FALSE]

RotaRow(id, name, lastName, day, startTime, endTime, wage, designation) ==
    [id |-> id, name |-> name, lastName |-> lastName, day |-> day,
     startTime |-> startTime, endTime |-> endTime,
     wage |-> wage, designation |-> designation]

\* SELECT ... FROM rota WHERE name = ? AND lastName = ? AND day = ?
ShiftsOf(table, name, lastName, day) ==
    {r \in table : r.name = name /\ r.lastName = lastName /\ r.day = day}

(***************************************************************************)
(* POST /save-shift.  A missing field is "" (<<>> for a time, 0 for        *)
(* entryId and wage).                                                      *)
(***************************************************************************)
\* Lines 401-443 for one existing row: both intervals to minutes, then the
\* overlap decision.
ShiftOverlaps(startTime, endTime, existing) ==
    SaveShiftOverlap(TotalMinutes(startTime), TotalMinutes(endTime),
                     TotalMinutes(Substring05(existing.startTime)),
                     TotalMinutes(Substring05(existing.endTime)))

SaveShiftRejectsOverlap(rq, existingShifts) ==
    \E existing \in existingShifts :
        /\ ~(rq.entryId # 0 /\ existing.id = rq.entryId)
        /\ ShiftOverlaps(rq.startTime, rq.endTime, existing)

\* The limit taken one row late: existingShifts.length > 2.
SaveShiftMaxReachedAboveTwo(existingShifts) == Cardinality(existingShifts) > 2

\* The count the new row is refused at: existingShifts.length >= 2.
SaveShiftMaxReached(existingShifts) == Cardinality(existingShifts) >= 2

\* The INSERT issued before the limit is looked at: the row is written and the
\* request is then refused.
SaveShiftInsertBeforeLimit(rq, existingShifts) ==
    LET op == "save-shift"
    IN
    \E picks \in PickSeqs :
        LET probe == ProbeLoop(picks, 0, {r.id : r \in rota})
        IN  IF probe.codeExists
            THEN /\ res' = Response(op, 500, "Could not generate unique shift code", 0)
                 /\ UNCHANGED rota
                 /\ idProbe' = probe
            ELSE /\ rota' = rota \cup
                        {RotaRow(probe.uniqueId, rq.name, rq.lastName, rq.day,
                                 ensureTimeWithSeconds(rq.startTime),
                                 ensureTimeWithSeconds(rq.endTime),
                                 rq.wage, rq.designation)}
                 /\ idProbe' = probe
                 /\ res' = IF SaveShiftMaxReached(existingShifts)
                           THEN Response(op, 400,
                                    "Maximum 2 shifts per day already exist", 0)
                           ELSE Response(op, 200, "Shift saved successfully",
                                         probe.uniqueId)

\* The branch without entryId: the limit of two shifts, the id, the INSERT.
SaveShiftInsert(rq, existingShifts) ==
    LET op == "save-shift"
    IN
    IF SaveShiftMaxReached(existingShifts)
    THEN /\ res' = Response(op, 400, "Maximum 2 shifts per day already exist", 0)
         /\ UNCHANGED rota
         /\ idProbe' = NoProbe
    ELSE \E picks \in PickSeqs :
            LET probe == ProbeLoop(picks, 0, {r.id : r \in rota})
            IN  IF probe.codeExists
                THEN /\ res' = Response(op, 500,
                            "Could not generate unique shift code", 0)
                     /\ UNCHANGED rota
                     /\ idProbe' = probe
                ELSE /\ rota' = rota \cup
                            {RotaRow(probe.uniqueId, rq.name, rq.lastName, rq.day,
                                     ensureTimeWithSeconds(rq.startTime),
                                     ensureTimeWithSeconds(rq.endTime),
                                     rq.wage, rq.designation)}
                     /\ idProbe' = probe
                     /\ res' = Response(op, 200, "Shift saved successfully",
                                        probe.uniqueId)

SaveShift(rq) ==
    LET op == "save-shift"
        existingShifts == ShiftsOf(rota, rq.name, rq.lastName, rq.day)
    IN
    IF rq.db = "" \/ rq.name = "" \/ rq.lastName = "" \/ rq.day = ""
       \/ Len(rq.startTime) = 0 \/ Len(rq.endTime) = 0
    THEN /\ res' = Response(op, 400,
                "Database, name, lastName, day, startTime, and endTime are required", 0)
         /\ UNCHANGED rota
         /\ idProbe' = NoProbe
    ELSE IF ~timeRegexTest(rq.startTime) \/ ~timeRegexTest(rq.endTime)
    THEN /\ res' = Response(op, 400, "Time must be in HH:mm format", 0)
         /\ UNCHANGED rota
         /\ idProbe' = NoProbe
    ELSE IF Hour(rq.startTime) > 23 \/ Minute(rq.startTime) > 59
            \/ Hour(rq.endTime) > 23 \/ Minute(rq.endTime) > 59
    THEN /\ res' = Response(op, 400, "Times must be valid (HH: 0-23, MM: 0-59)", 0)
         /\ UNCHANGED rota
         /\ idProbe' = NoProbe
    ELSE IF getPoolThrows(rq.db)
    THEN /\ res' = Response(op, 500, "Server error saving shift", 0)
         /\ UNCHANGED rota
         /\ idProbe' = NoProbe
    ELSE IF SaveShiftRejectsOverlap(rq, existingShifts)
    THEN /\ res' = Response(op, 400,
                "This shift overlaps with another existing shift", 0)
         /\ UNCHANGED rota
         /\ idProbe' = NoProbe
    ELSE IF rq.entryId # 0
    THEN /\ rota' = {IF r.id = rq.entryId
                     THEN [r EXCEPT !.startTime = ensureTimeWithSeconds(rq.startTime),
                                    !.endTime = ensureTimeWithSeconds(rq.endTime),
                                    !.wage = rq.wage,
                                    !.designation = rq.designation]
                     ELSE r : r \in rota}
         /\ idProbe' = NoProbe
         /\ res' = Response(op, 200, "Shift updated successfully", rq.entryId)
    ELSE SaveShiftInsert(rq, existingShifts)

(***************************************************************************)
(* POST /delete-shift (and DELETE /delete-shift, the same code).           *)
(***************************************************************************)
\* The DELETE with its WHERE taken on the employee instead of the id: every
\* row of the employee whose row has the id goes.
DeletedRowsOfEmployee(table, entryId) ==
    {r \in table : \E d \in table : d.id = entryId /\ d.name = r.name}

\* DELETE FROM rota WHERE id = ?
DeletedRows(table, entryId) == {r \in table : r.id = entryId}

DeleteShift(rq) ==
    LET op == "delete-shift"
        affected == DeletedRows(rota, rq.entryId)
    IN
    IF rq.db = "" \/ rq.entryId = 0
    THEN /\ res' = Response(op, 400, "Database and entryId are required", 0)
         /\ UNCHANGED rota
    ELSE IF getPoolThrows(rq.db)
    THEN /\ res' = Response(op, 500, "Server error deleting shift", 0)
         /\ UNCHANGED rota
    ELSE IF affected = {}
    THEN /\ res' = Response(op, 404, "Shift not found", 0)
         /\ UNCHANGED rota
    ELSE /\ rota' = rota \ affected
         /\ res' = Response(op, 200, "Shift deleted successfully", 0)

(***************************************************************************)
(* POST /add-another-shift.                                                *)
(***************************************************************************)
AddAnotherRejectsOverlap(rq, existingShifts) ==
    \E existing \in existingShifts :
        AddAnotherOverlap(rq.startTime, rq.endTime,
                          Substring05(existing.startTime),
                          Substring05(existing.endTime))

\* SELECT COUNT(*) ...; countRows[0].count >= 2
AddAnotherMaxReached(existingShifts) == Cardinality(existingShifts) >= 2

AddAnotherShift(rq) ==
    LET op == "add-another-shift"
        existingShifts == ShiftsOf(rota, rq.name, rq.lastName, rq.day)
    IN
    IF rq.db = "" \/ rq.name = "" \/ rq.lastName = "" \/ rq.day = ""
       \/ Len(rq.startTime) = 0 \/ Len(rq.endTime) = 0
    THEN /\ res' = Response(op, 400, "All fields are required", 0)
         /\ UNCHANGED rota
         /\ idProbe' = NoProbe
    ELSE IF ~timeRegexTest(rq.startTime) \/ ~timeRegexTest(rq.endTime)
    THEN /\ res' = Response(op, 400, "Time must be in HH:mm format", 0)
         /\ UNCHANGED rota
         /\ idProbe' = NoProbe
    ELSE IF Hour(rq.startTime) > 23 \/ Minute(rq.startTime) > 59
            \/ Hour(rq.endTime) > 23 \/ Minute(rq.endTime) > 59
    THEN /\ res' = Response(op, 400, "Times must be valid (HH: 0-23, MM: 0-59)", 0)
         /\ UNCHANGED rota
         /\ idProbe' = NoProbe
    ELSE IF getPoolThrows(rq.db)
    THEN /\ res' = Response(op, 500, "Server error adding shift", 0)
         /\ UNCHANGED rota
         /\ idProbe' = NoProbe
    ELSE IF AddAnotherMaxReached(existingShifts)
    THEN /\ res' = Response(op, 400, "Maximum 2 shifts per day already exist", 0)
         /\ UNCHANGED rota
         /\ idProbe' = NoProbe
    ELSE IF AddAnotherRejectsOverlap(rq, existingShifts)
    THEN /\ res' = Response(op, 400, "New shift overlaps with existing shift", 0)
         /\ UNCHANGED rota
         /\ idProbe' = NoProbe
    ELSE \E picks \in PickSeqs :
            LET probe == ProbeLoop(picks, 0, {r.id : r \in rota})
            IN  IF probe.codeExists
                THEN /\ res' = Response(op, 500,
                            "Could not generate unique shift code", 0)
                     /\ UNCHANGED rota
                     /\ idProbe' = probe
                ELSE /\ rota' = rota \cup
                            {RotaRow(probe.uniqueId, rq.name, rq.lastName, rq.day,
                                     ensureTimeWithSeconds(rq.startTime),
                                     ensureTimeWithSeconds(rq.endTime),
                                     rq.wage, rq.designation)}
                     /\ idProbe' = probe
                     /\ res' = Response(op, 200, "Shift added successfully",
                                        probe.uniqueId)

(***************************************************************************)
(* The requests the rota handlers are driven with.                         *)
(***************************************************************************)
Names == {"Ana", "Ben"}
LastNames == {"Rossi"}
Days == {"01/01/2024 (Monday)"}

\* <<startTime, endTime>> pairs: day shifts that touch and that overlap, a
\* shift that wraps past midnight, and an evening shift that overlaps it.
ShiftTimes ==
    { <<HHMM(9, 0), HHMM(13, 0)>>, <<HHMM(13, 0), HHMM(17, 0)>>,
      <<HHMM(12, 0), HHMM(14, 0)>>, <<HHMM(17, 0), HHMM(23, 0)>>,
      <<HHMM(22, 0), HHMM(2, 0)>> }

\* Malformed times: hour 24, minute 60, and a missing field.
BadTimes ==
    { <<HHMM(24, 0), HHMM(9, 0)>>, <<HHMM(9, 0), HHMM(12, 60)>>,
      <<<<>>, HHMM(9, 0)>> }

\* wage and designation, copied from the employee record by the client
\* (wage 0 and designation "" when the client sends none).
NoMeta == [wage |-> 0, designation |-> ""]
ChefMeta == [wage |-> 12, designation |-> "Chef"]

ShiftRequest(db, entryId, name, lastName, day, times, meta) ==
    [db |-> db, entryId |-> entryId, name |-> name, lastName |-> lastName,
     day |-> day, startTime |-> times[1], endTime |-> times[2],
     wage |-> meta.wage, designation |-> meta.designation]

\* Ana is sent with every time pair, Ben with the first one only; an update
\* without wage is sent for the first time pair.
ValidShiftRequests ==
    {ShiftRequest(TenantDb, e, "Ana", l, d, t, ChefMeta) :
        e \in 0..MaxId, l \in LastNames, d \in Days, t \in ShiftTimes}
    \cup {ShiftRequest(TenantDb, e, "Ana", l, d, <<HHMM(9, 0), HHMM(13, 0)>>, NoMeta) :
        e \in 1..MaxId, l \in LastNames, d \in Days}
    \cup {ShiftRequest(TenantDb, e, "Ben", l, d, <<HHMM(9, 0), HHMM(13, 0)>>, ChefMeta) :
        e \in 0..MaxId, l \in LastNames, d \in Days}

InvalidShiftRequests ==
    {ShiftRequest(TenantDb, 0, "Ana", "Rossi", "01/01/2024 (Monday)", t, NoMeta) :
        t \in BadTimes}
    \cup {ShiftRequest(db, 0, "Ana", "Rossi", "01/01/2024 (Monday)",
                       <<HHMM(9, 0), HHMM(13, 0)>>, NoMeta) : db \in {"", "nodb"}}

SaveShiftRequests == ValidShiftRequests \cup InvalidShiftRequests

AddAnotherShiftRequests == {r \in SaveShiftRequests : r.entryId = 0}

DeleteShiftRequests ==
    {[db |-> TenantDb, entryId |-> e] : e \in 0..MaxId}
    \cup {[db |-> db, entryId |-> 1] : db \in {"", "nodb"}}

(***************************************************************************)
(* The rota specification: requests handled one at a time.                 *)
(***************************************************************************)
NoInterval == [startTime |-> <<>>, endTime |-> <<>>]
NoVerdict == [decided |-> FALSE, forward |-> FALSE, backward |-> FALSE]

Init ==
    /\ rota = {}
    /\ req = NoRequest
    /\ res = NoResponse
    /\ holiday = {}
    /\ notifications = <<>>
    /\ idProbe = NoProbe
    /\ shiftRequests = {}
    /\ clock = 0
    /\ overview = NoOverview
    /\ accrual = NoAccrual
    /\ cand = NoInterval
    /\ exist = NoInterval
    /\ verdict = NoVerdict
    /\ inflight = NoInflight

\* The request carries the name, lastName and day of the row its entryId
\* names (or an entryId no row has).
EditsOwnRow(rq) ==
    \A r \in rota :
        r.id = rq.entryId =>
            r.name = rq.name /\ r.lastName = rq.lastName /\ r.day = rq.day

\* The requests that arrive: Ana's updates carry the key of the row they
\* edit; Ben's may carry an entryId that belongs to a row of another key (the
\* handler takes name, lastName, day and entryId from the body unrelated).
Arrives(rq) == EditsOwnRow(rq) \/ rq.name = "Ben"

SaveShiftStep ==
    /\ \E r \in SaveShiftRequests : Arrives(r) /\ SaveShift(r) /\ req' = r
    /\ UNCHANGED <<holidayVars, resolverVars, requestVars, leaveVars,
                  inflight>>

AddAnotherShiftStep ==
    /\ \E r \in AddAnotherShiftRequests : AddAnotherShift(r) /\ req' = r
    /\ UNCHANGED <<holidayVars, resolverVars, requestVars, leaveVars,
                  inflight>>

DeleteShiftStep ==
    /\ \E r \in DeleteShiftRequests : DeleteShift(r) /\ req' = r
    /\ idProbe' = NoProbe
    /\ UNCHANGED <<holidayVars, resolverVars, requestVars, leaveVars,
                  inflight>>

Next ==
    \/ SaveShiftStep
    \/ AddAnotherShiftStep
    \/ DeleteShiftStep

Spec == Init /\ [][Next]_vars

(***************************************************************************)
(* The overlap resolver of POST /save-shift run on its own: a candidate    *)
(* and one existing row are drawn, and the resolver decides on them in     *)
(* both roles.                                                             *)
(***************************************************************************)
ResolverTimes ==
    { HHMM(0, 0), HHMM(0, 55), HHMM(6, 0), HHMM(9, 0), HHMM(17, 0),
      HHMM(22, 0), HHMM(22, 55), HHMM(23, 0), HHMM(23, 59) }

Interval(startTime, endTime) == [startTime |-> startTime, endTime |-> endTime]

\* The interval as the rota stores it, and as a request carries it.
Stored(i) == Interval(ensureTimeWithSeconds(i.startTime),
                      ensureTimeWithSeconds(i.endTime))
Sent(i) == Interval(Substring05(i.startTime), Substring05(i.endTime))

\* Intervals whose end differs from their start.
ProperIntervals ==
    {i \in {Interval(s, e) : s \in ResolverTimes, e \in ResolverTimes} :
        i.startTime # i.endTime}

InitResolver ==
    /\ rota = {}
    /\ req = NoRequest
    /\ res = NoResponse
    /\ holiday = {}
    /\ notifications = <<>>
    /\ idProbe = NoProbe
    /\ shiftRequests = {}
    /\ clock = 0
    /\ overview = NoOverview
    /\ accrual = NoAccrual
    /\ cand \in ProperIntervals
    /\ exist \in {Stored(i) : i \in ProperIntervals}
    /\ verdict = NoVerdict
    /\ inflight = NoInflight

ResolveOverlap ==
    /\ ~verdict.decided
    /\ verdict' =
         [decided |-> TRUE,
          forward |-> ShiftOverlaps(cand.startTime, cand.endTime, exist),
          backward |-> ShiftOverlaps(Sent(exist).startTime, Sent(exist).endTime,
                                     Stored(cand))]
    /\ UNCHANGED <<rota, req, res, holiday, notifications, cand, exist,
                   idProbe, requestVars, leaveVars, inflight>>

NextResolver == ResolveOverlap

SpecResolver == InitResolver /\ [][NextResolver]_vars

\* The resolver on every interval a request can carry, those whose end is
\* their start included.
AllIntervals == {Interval(s, e) : s \in ResolverTimes, e \in ResolverTimes}

InitResolverAll ==
    /\ rota = {}
    /\ req = NoRequest
    /\ res = NoResponse
    /\ holiday = {}
    /\ notifications = <<>>
    /\ idProbe = NoProbe
    /\ shiftRequests = {}
    /\ clock = 0
    /\ overview = NoOverview
    /\ accrual = NoAccrual
    /\ cand \in AllIntervals
    /\ exist \in {Stored(i) : i \in AllIntervals}
    /\ verdict = NoVerdict
    /\ inflight = NoInflight

SpecResolverAll == InitResolverAll /\ [][NextResolver]_vars

(***************************************************************************)
(* POST /holidays/decide.                                                  *)
(*                                                                         *)
(* The users table of the access database and the Employees table of the   *)
(* tenant are not written by any handler modelled here.  A text built by   *)
(* concatenation is the sequence of its pieces; "" is <<>>.                *)
(***************************************************************************)
MaxDecisions == 3

users ==
    { [Email |-> "am@solura", db_name |-> TenantDb, Access |-> "AM"],
      [Email |-> "mgr@solura", db_name |-> TenantDb, Access |-> "manager"],
      [Email |-> "mgr@solura", db_name |-> OtherDb, Access |-> "employee"],
      [Email |-> "staff@solura", db_name |-> TenantDb, Access |-> "employee"],
      [Email |-> "admin@solura", db_name |-> TenantDb, Access |-> "admin"],
      [Email |-> "out@solura", db_name |-> OtherDb, Access |-> "manager"] }

Employees ==
    { [email |-> "am@solura", name |-> "Mia", lastName |-> "Conti",
       designation |-> "AM", startHoliday |-> 28],
      [email |-> "staff@solura", name |-> "Ana", lastName |-> "Rossi",
       designation |-> "foh", startHoliday |-> 28],
      [email |-> "ben@solura", name |-> "Ben", lastName |-> "Rossi",
       designation |-> "BOH", startHoliday |-> 4] }

\* String(x).trim() and toLowerCase() on the strings the requests and the
\* tables carry.
Trim(str) ==
    CASE str = " Decline" -> "Decline"
      [] str = "  " -> ""
      [] OTHER -> str

ToLowerCase(str) ==
    CASE str = "Decline" -> "decline"
      [] str = "AM" -> "am"
      [] str = "FOH" -> "foh"
      [] str = "BOH" -> "boh"
      [] str = "Paid" -> "paid"
      [] str = "Unpaid" -> "unpaid"
      [] str = "Staff@Solura" -> "staff@solura"
      [] str = "Pending" -> "pending"
      [] str = "Declined" -> "declined"
      [] str = "Approved (Paid)" -> "approved (paid)"
      [] str = "Approved (Unpaid)" -> "approved (unpaid)"
      [] OTHER -> str

ToUpperCase(str) ==
    CASE str = "foh" -> "FOH"
      [] str = "boh" -> "BOH"
      [] str = "am" -> "AM"
      [] OTHER -> str

\* `${a.name || ""} ${a.lastName || ""}`.trim()
FullName(a) ==
    IF a.name = "" /\ a.lastName = "" THEN <<>>
    ELSE IF a.name = "" THEN <<a.lastName>>
    ELSE IF a.lastName = "" THEN <<a.name>>
    ELSE <<a.name, " ", a.lastName>>

\* The columns the handler selects from Holiday.
DecideColumns == {"id", "name", "lastName", "startDate", "endDate", "notes"}

\* row.column || "" for a column that the query may not have selected.
ColumnOrEmpty(row, column) ==
    IF column \in DOMAIN row THEN row[column] ELSE ""

Notification(targetRole, title, message) ==
    [targetRole |-> targetRole, title |-> title, message |-> message,
     type |-> "HOLIDAY"]

\* Any access row for the tenant taken as enough.
IsApproverAnyLevel(accessList) == accessList # {}

\* accessList.some(a => a === "am" || a === "manager")
IsApprover(accessList) == \E a \in accessList : a = "am" \/ a = "manager"

HolidaysDecide(rq) ==
    LET op == "holidays/decide"
        dec == ToLowerCase(Trim(rq.decision))
        userRows == {u \in users : u.Email = Trim(rq.actorEmail) /\ u.db_name = rq.db}
        accessList == {ToLowerCase(Trim(u.Access)) : u \in userRows}
        isApprover == IsApprover(accessList)
        actorEmpRows == {e \in Employees : e.email = Trim(rq.actorEmail)}
        who == IF \E e \in actorEmpRows : FullName(e) # <<>>
               THEN FullName(CHOOSE e \in actorEmpRows : FullName(e) # <<>>)
               ELSE <<Trim(rq.actorEmail)>>
        holidayRows == {[c \in DecideColumns |-> h[c]] : h \in {x \in holiday : x.id = rq.id}}
    IN
    IF rq.db = "" \/ rq.id = 0 \/ rq.decision = "" \/ rq.actorEmail = ""
    THEN /\ res' = Response(op, 400, "db, id, decision, actorEmail are required", 0)
         /\ UNCHANGED <<holiday, notifications>>
    ELSE IF dec # "approve" /\ dec # "decline"
    THEN /\ res' = Response(op, 400, "decision must be 'approve' or 'decline'", 0)
         /\ UNCHANGED <<holiday, notifications>>
    ELSE IF getPoolThrows(rq.db)
    THEN /\ res' = Response(op, 500, "Server error deciding holiday", 0)
         /\ UNCHANGED <<holiday, notifications>>
    ELSE IF userRows = {}
    THEN /\ res' = Response(op, 403, "Not allowed (no access for this database)", 0)
         /\ UNCHANGED <<holiday, notifications>>
    ELSE IF ~isApprover
    THEN /\ res' = Response(op, 403, "Not allowed", 0)
         /\ UNCHANGED <<holiday, notifications>>
    ELSE IF holidayRows = {}
    THEN /\ res' = Response(op, 404, "Holiday request not found", 0)
         /\ UNCHANGED <<holiday, notifications>>
    ELSE LET row == CHOOSE h \in holidayRows : TRUE
             currentAccepted == ToLowerCase(Trim(ColumnOrEmpty(row, "accepted")))
             stillPendingOrUnpaid == currentAccepted = "" \/ currentAccepted = "unpaid"
             acceptedValue == IF dec = "approve" THEN "true" ELSE "false"
             declineReason == Trim(rq.reason)
             updatedNotes == IF dec = "decline" /\ declineReason # ""
                             THEN declineReason
                             ELSE ColumnOrEmpty(row, "notes")
             title == IF dec = "approve" THEN "Holiday Approved" ELSE "Holiday Declined"
             msg == [name |-> row.name, lastName |-> row.lastName,
                     startDate |-> row.startDate, endDate |-> row.endDate,
                     by |-> who,
                     reason |-> IF dec = "approve" THEN "" ELSE declineReason]
         IN  IF ~stillPendingOrUnpaid
             THEN /\ res' = Response(op, 409, "This request was already decided", 0)
                  /\ UNCHANGED <<holiday, notifications>>
             ELSE /\ holiday' = {IF h.id = rq.id
                                 THEN [h EXCEPT !.accepted = acceptedValue,
                                                !.who = who,
                                                !.notes = updatedNotes]
                                 ELSE h : h \in holiday}
                  /\ notifications' = notifications
                        \o <<Notification("AM", title, msg),
                             Notification("Manager", title, msg)>>
                  /\ res' = Response(op, 200, "Decision saved", 0)

(***************************************************************************)
(* The holiday specification: decisions on the requests of the tenant,     *)
(* handled one at a time.                                                  *)
(***************************************************************************)
HolidayRow(id, name, lastName, startDate, endDate, days, accepted, notes) ==
    [id |-> id, name |-> name, lastName |-> lastName,
     startDate |-> startDate, endDate |-> endDate, days |-> days,
     accepted |-> accepted, who |-> <<>>, notes |-> notes]

\* Two requests nobody has decided yet: a paid and an unpaid one.
PendingHolidays ==
    { HolidayRow(1, "Ana", "Rossi", "05/02/2024 (Monday)", "09/02/2024 (Friday)",
                 5, "", "family trip"),
      HolidayRow(2, "Ben", "Rossi", "11/03/2024 (Monday)", "12/03/2024 (Tuesday)",
                 2, "unpaid", "") }

DecideRequest(db, id, decision, actorEmail, reason) ==
    [db |-> db, id |-> id, decision |-> decision, actorEmail |-> actorEmail,
     reason |-> reason]

Approvers == {"am@solura", "mgr@solura"}
NonApprovers == {"staff@solura", "admin@solura", "out@solura", "nobody@solura"}
Reasons == {"", "short staffed"}

DecideRequests ==
    {DecideRequest(TenantDb, id, d, a, r) :
        id \in 1..3, d \in {"approve", "decline"}, a \in Approvers, r \in Reasons}
    \cup {DecideRequest(TenantDb, 1, d, a, "short staffed") :
        d \in {"approve", "decline"}, a \in NonApprovers}
    \cup {DecideRequest(TenantDb, 1, d, "am@solura", r) :
        d \in {" Decline", "maybe", ""}, r \in {"  "}}
    \cup {DecideRequest(TenantDb, 1, "maybe", "staff@solura", "")}
    \cup {DecideRequest(db, id, "approve", "am@solura", "") :
        db \in {"", "nodb"}, id \in {0, 1}}

InitHoliday ==
    /\ rota = {}
    /\ req = NoRequest
    /\ res = NoResponse
    /\ holiday = PendingHolidays
    /\ notifications = <<>>
    /\ idProbe = NoProbe
    /\ shiftRequests = {}
    /\ clock = 0
    /\ overview = NoOverview
    /\ accrual = NoAccrual
    /\ cand = NoInterval
    /\ exist = NoInterval
    /\ verdict = NoVerdict
    /\ inflight = NoInflight

HolidaysDecideStep ==
    /\ Len(notifications) < 2 * MaxDecisions
    /\ \E r \in DecideRequests : HolidaysDecide(r) /\ req' = r
    /\ UNCHANGED <<rota, resolverVars, idProbe, requestVars, leaveVars,
                  inflight>>

NextHoliday == HolidaysDecideStep

SpecHoliday == InitHoliday /\ [][NextHoliday]_vars

(***************************************************************************)
(* Calendar dates.  A Date is a number of ticks since 1970-01-01 00:00 of  *)
(* the server's clock; a day has TicksPerDay ticks (the code counts        *)
(* milliseconds).  The clock has a fixed offset: no day is shorter or      *)
(* longer than TicksPerDay.  Date texts are sequences of character codes.  *)
(***************************************************************************)
TicksPerDay == 4

Slash == 47
Dash == 45
Space == 32

Chars(n, width) == [i \in 1..width |-> Digit0 + ((n \div (10 ^ (width - i))) % 10)]

\* String(n).padStart(2, "0") for 0 <= n <= 99, and a year of four digits.
Pad2(n) == Chars(n, 2)
Year4(n) == Chars(n, 4)

AllDigits(s) == \A i \in 1..Len(s) : IsDigit(s[i])

IsLeapYear(y) == (y % 4 = 0 /\ y % 100 # 0) \/ y % 400 = 0

DaysInMonth(y, m) ==
    IF m = 2 THEN (IF IsLeapYear(y) THEN 29 ELSE 28)
    ELSE IF m \in {4, 6, 9, 11} THEN 30 ELSE 31

LeapsThrough(y) == (y \div 4) - (y \div 100) + (y \div 400)

RECURSIVE DaysBeforeMonth(_, _)
DaysBeforeMonth(y, m) ==
    IF m <= 1 THEN 0 ELSE DaysBeforeMonth(y, m - 1) + DaysInMonth(y, m - 1)

\* The day number of new Date(y, m - 1, d): days since 1970-01-01.
DayNumber(y, m, d) ==
    365 * (y - 1970) + LeapsThrough(y - 1) - LeapsThrough(1969)
    + DaysBeforeMonth(y, m) + d - 1

\* toLocaleDateString("en-GB", {weekday: "long"}): 1970-01-01 was a Thursday.
WeekdayNames ==
    << <<77, 111, 110, 100, 97, 121>>,
       <<84, 117, 101, 115, 100, 97, 121>>,
       <<87, 101, 100, 110, 101, 115, 100, 97, 121>>,
       <<84, 104, 117, 114, 115, 100, 97, 121>>,
       <<70, 114, 105, 100, 97, 121>>,
       <<83, 97, 116, 117, 114, 100, 97, 121>>,
       <<83, 117, 110, 100, 97, 121>> >>

Weekday(dayNumber) == WeekdayNames[((dayNumber + 3) % 7) + 1]

\* d.setHours(0, 0, 0, 0) and d.setHours(23, 59, 59, 999) of a day.
StartOfDay(dayNumber) == dayNumber * TicksPerDay
EndOfDay(dayNumber) == dayNumber * TicksPerDay + TicksPerDay - 1

\* "YYYY-MM-DD" of a date and "dd/mm/yyyy" of it, as a client writes them.
IsoDate(y, m, d) == Year4(y) \o <<Dash>> \o Pad2(m) \o <<Dash>> \o Pad2(d)
SlashDate(y, m, d) == Pad2(d) \o <<Slash>> \o Pad2(m) \o <<Slash>> \o Year4(y)

\* new Date(`${dateStr}T00:00:00`) is a date: "YYYY-MM-DD" of a day of the
\* calendar.
IsIsoDate(s) ==
    /\ Len(s) = 10
    /\ s[5] = Dash /\ s[8] = Dash
    /\ AllDigits(SubSeq(s, 1, 4)) /\ AllDigits(SubSeq(s, 6, 7))
    /\ AllDigits(SubSeq(s, 9, 10))
    /\ ToNumber(SubSeq(s, 6, 7)) \in 1..12
    /\ ToNumber(SubSeq(s, 9, 10)) \in
          1..DaysInMonth(ToNumber(SubSeq(s, 1, 4)), ToNumber(SubSeq(s, 6, 7)))

\* formatDayLabel: "dd/mm/yyyy (Weekday)" of "YYYY-MM-DD", or null (<<>>).
formatDayLabel(dateStr) ==
    IF ~IsIsoDate(dateStr) THEN <<>>
    ELSE LET yyyy == ToNumber(SubSeq(dateStr, 1, 4))
             mm == ToNumber(SubSeq(dateStr, 6, 7))
             dd == ToNumber(SubSeq(dateStr, 9, 10))
         IN  Pad2(dd) \o <<Slash>> \o Pad2(mm) \o <<Slash>> \o Year4(yyyy)
             \o <<Space, 40>> \o Weekday(DayNumber(yyyy, mm, dd)) \o <<41>>

\* toHHMMSS: "HH:mm:ss" of "HH:mm" or "HH:mm:ss", or null (<<>>).
toHHMMSS(input) ==
    LET twoDigitsAt(i) == IsDigit(input[i]) /\ IsDigit(input[i + 1])
    IN  IF Len(input) = 8 /\ twoDigitsAt(1) /\ input[3] = Colon /\ twoDigitsAt(4)
           /\ input[6] = Colon /\ twoDigitsAt(7)
        THEN input
        ELSE IF Len(input) = 5 /\ twoDigitsAt(1) /\ input[3] = Colon /\ twoDigitsAt(4)
        THEN input \o <<Colon, Digit0, Digit0>>
        ELSE <<>>

(***************************************************************************)
(* Shift requests: POST /rota/shift-request and                            *)
(* POST /rota/shift-request/:id/accept.                                    *)
(***************************************************************************)
\* What the client sees when the handler's promise rejects: express sends
\* no answer.
Unhandled(op) == Response(op, 0, "unhandled promise rejection", 0)

\* getUserAccessFromMainDB({authPool, email, db})
getUserAccessFromMainDB(email, db) ==
    LET e == ToLowerCase(Trim(email))
        rows == {u \in users :
                    /\ ToLowerCase(Trim(u.Email)) = e
                    /\ Trim(ToLowerCase(u.db_name)) = Trim(ToLowerCase(db))}
    IN  IF rows = {} THEN [found |-> FALSE, access |-> ""]
        ELSE [found |-> TRUE,
              access |-> Trim(ToLowerCase((CHOOSE u \in rows : TRUE).Access))]

\* generateUniqueShiftId(conn): while (true), an id is drawn and probed in
\* ShiftRequests and then in rota.  picks[i] is the i-th draw; 0 stands for
\* a run all of whose draws so far collide (the loop has not returned).
RECURSIVE generateUniqueShiftId(_, _, _, _)
generateUniqueShiftId(picks, i, requestIds, rotaIds) ==
    IF i > Len(picks) THEN 0
    ELSE IF picks[i] \in requestIds THEN generateUniqueShiftId(picks, i + 1, requestIds, rotaIds)
    ELSE IF picks[i] \in rotaIds THEN generateUniqueShiftId(picks, i + 1, requestIds, rotaIds)
    ELSE picks[i]

\* The number of draws generateUniqueShiftId makes until it returns.
RECURSIVE ShiftIdDraws(_, _, _, _)
ShiftIdDraws(picks, i, requestIds, rotaIds) ==
    IF i > Len(picks) THEN 0
    ELSE IF picks[i] \in requestIds \/ picks[i] \in rotaIds
    THEN ShiftIdDraws(picks, i + 1, requestIds, rotaIds)
    ELSE i

\* Runs of the generator for a shift request: those of PickSeqs, and ten
\* draws of id 1 followed by id 2.
RequestPickSeqs ==
    PickSeqs \cup {[i \in 1..(MaxAttempts + 1) |-> IF i <= MaxAttempts THEN 1 ELSE 2]}

ShiftRequestRow(id, day_date, day_label, start_time, end_time, needed_for,
                status, created_by_email, accepted_by_email) ==
    [id |-> id, day_date |-> day_date, day_label |-> day_label,
     start_time |-> start_time, end_time |-> end_time, needed_for |-> needed_for,
     status |-> status, created_by_email |-> created_by_email,
     accepted_by_email |-> accepted_by_email]

ShiftRequestCreate(rq) ==
    LET op == "rota/shift-request"
        accessInfo == getUserAccessFromMainDB(rq.userEmail, rq.db)
        st == toHHMMSS(rq.startTime)
        et == toHHMMSS(rq.endTime)
        dayLabel == formatDayLabel(rq.dayDate)
        needed == IF ToLowerCase(rq.neededFor) \in {"foh", "boh", "anyone"}
                  THEN ToLowerCase(rq.neededFor) ELSE "anyone"
    IN
    IF rq.db = "" \/ rq.userEmail = "" \/ Len(rq.dayDate) = 0
       \/ Len(rq.startTime) = 0 \/ Len(rq.endTime) = 0
    THEN /\ res' = Response(op, 400, "Missing required fields", 0)
         /\ UNCHANGED <<rota, shiftRequests>>
         /\ idProbe' = NoProbe
    ELSE IF getPoolThrows(rq.db)
    THEN \* getPool(db) is called before the try block
         /\ res' = Unhandled(op)
         /\ UNCHANGED <<rota, shiftRequests>>
         /\ idProbe' = NoProbe
    ELSE IF ~accessInfo.found
    THEN /\ res' = Response(op, 403, "User not found for workspace", 0)
         /\ UNCHANGED <<rota, shiftRequests>>
         /\ idProbe' = NoProbe
    ELSE IF accessInfo.access \notin {"admin", "am", "assistant manager"}
    THEN /\ res' = Response(op, 403, "Not allowed to create shift", 0)
         /\ UNCHANGED <<rota, shiftRequests>>
         /\ idProbe' = NoProbe
    ELSE IF st = <<>> \/ et = <<>>
    THEN /\ res' = Response(op, 400, "Times must be HH:mm or HH:mm:ss", 0)
         /\ UNCHANGED <<rota, shiftRequests>>
         /\ idProbe' = NoProbe
    ELSE IF dayLabel = <<>>
    THEN /\ res' = Response(op, 400, "dayDate must be YYYY-MM-DD", 0)
         /\ UNCHANGED <<rota, shiftRequests>>
         /\ idProbe' = NoProbe
    ELSE \E picks \in RequestPickSeqs :
            LET id == generateUniqueShiftId(picks, 1, {q.id : q \in shiftRequests},
                                            {r.id : r \in rota})
                n == ShiftIdDraws(picks, 1, {q.id : q \in shiftRequests},
                                  {r.id : r \in rota})
            IN  /\ id # 0
                /\ idProbe' = [codeExists |-> FALSE, uniqueId |-> id, attempts |-> n,
                               draws |-> SubSeq(picks, 1, n)]
                /\ shiftRequests' = shiftRequests \cup
                      {ShiftRequestRow(id, rq.dayDate, dayLabel, st, et, needed,
                                       "pending", ToLowerCase(Trim(rq.userEmail)), "")}
                /\ res' = Response(op, 200, "Shift request created", id)
                /\ UNCHANGED rota

ShiftRequestAccept(rq) ==
    LET op == "rota/shift-request/accept"
        email == ToLowerCase(Trim(rq.userEmail))
        reqRows == {q \in shiftRequests : q.id = rq.id}
        empRows == {e \in Employees : ToLowerCase(Trim(e.email)) = email}
    IN
    IF rq.db = "" \/ rq.id = 0 \/ rq.userEmail = ""
    THEN /\ res' = Response(op, 400, "db, id, userEmail are required", 0)
         /\ UNCHANGED <<rota, shiftRequests>>
    ELSE IF getPoolThrows(rq.db)
    THEN \* getPool(db) is called before the try block
         /\ res' = Unhandled(op)
         /\ UNCHANGED <<rota, shiftRequests>>
    ELSE IF reqRows = {}
    THEN /\ res' = Response(op, 404, "Shift request not found", 0)
         /\ UNCHANGED <<rota, shiftRequests>>
    ELSE LET shift == CHOOSE q \in reqRows : TRUE
         IN
         IF shift.status # "pending"
         THEN /\ res' = Response(op, 409, "Shift already accepted/cancelled", 0)
              /\ UNCHANGED <<rota, shiftRequests>>
         ELSE IF empRows = {}
         THEN /\ res' = Response(op, 403, "Employee not found in this workspace", 0)
              /\ UNCHANGED <<rota, shiftRequests>>
         ELSE LET emp == CHOOSE e \in empRows : TRUE
                  empDesignation == ToUpperCase(Trim(emp.designation))
                  neededFor == ToLowerCase(shift.needed_for)
                  eligible == \/ neededFor = "anyone"
                              \/ neededFor = "foh" /\ empDesignation = "FOH"
                              \/ neededFor = "boh" /\ empDesignation = "BOH"
              IN
              IF ~eligible
              THEN /\ res' = Response(op, 403, "Not eligible", 0)
                   /\ UNCHANGED <<rota, shiftRequests>>
              ELSE IF \E r \in rota : r.id = rq.id
              THEN /\ res' = Response(op, 409, "Shift id already exists in rota", 0)
                   /\ UNCHANGED <<rota, shiftRequests>>
              ELSE /\ shiftRequests' =
                         {IF q.id = rq.id
                          THEN [q EXCEPT !.status = "accepted",
                                         !.accepted_by_email = email]
                          ELSE q : q \in shiftRequests}
                   /\ rota' = rota \cup
                         {RotaRow(rq.id, Trim(emp.name), Trim(emp.lastName),
                                  shift.day_label, shift.start_time, shift.end_time,
                                  0, empDesignation)}
                   /\ res' = Response(op, 200, "Shift accepted", rq.id)

(***************************************************************************)
(* The shift-request specification: requests are created and accepted,     *)
(* and shifts are added, one request at a time.                            *)
(***************************************************************************)
RequestDay == IsoDate(2024, 1, 1)

CreateRequest(db, userEmail, dayDate, startTime, endTime, neededFor) ==
    [db |-> db, userEmail |-> userEmail, dayDate |-> dayDate,
     startTime |-> startTime, endTime |-> endTime, neededFor |-> neededFor]

CreateRequests ==
    {CreateRequest(TenantDb, u, RequestDay, HHMM(9, 0), HHMM(13, 0), n) :
        u \in {"am@solura", "staff@solura", "nobody@solura"}, n \in {"FOH", "anyone"}}
    \cup {CreateRequest(db, "am@solura", RequestDay, HHMM(9, 0), HHMM(13, 0), "anyone") :
        db \in {"", "nodb"}}
    \cup {CreateRequest(TenantDb, "am@solura", d, t, HHMM(13, 0), "anyone") :
        d \in {RequestDay, SlashDate(2024, 1, 1)}, t \in {HHMM(9, 0), <<57, Colon, 48, 48>>}}

AcceptRequest(db, id, userEmail) == [db |-> db, id |-> id, userEmail |-> userEmail]

AcceptRequests ==
    {AcceptRequest(TenantDb, id, u) :
        id \in Ids, u \in {"staff@solura", "ben@solura", "nobody@solura"}}
    \cup {AcceptRequest(db, id, "Staff@Solura") : db \in {"", "nodb", TenantDb}, id \in {0, 1}}

\* The adds sent next to the requests: for Ana, on the day of the requests.
RequestShiftRequests ==
    {ShiftRequest(TenantDb, 0, "Ana", "Rossi", formatDayLabel(RequestDay), t, ChefMeta) :
        t \in {<<HHMM(9, 0), HHMM(13, 0)>>, <<HHMM(13, 0), HHMM(17, 0)>>}}

InitShiftRequests == Init

ShiftRequestCreateStep ==
    /\ \E r \in CreateRequests : ShiftRequestCreate(r) /\ req' = r
    /\ UNCHANGED <<holidayVars, resolverVars, leaveVars, inflight>>

ShiftRequestAcceptStep ==
    /\ \E r \in AcceptRequests : ShiftRequestAccept(r) /\ req' = r
    /\ idProbe' = NoProbe
    /\ UNCHANGED <<holidayVars, resolverVars, leaveVars, inflight>>

SaveShiftAddStep ==
    /\ \E r \in RequestShiftRequests : SaveShift(r) /\ req' = r
    /\ UNCHANGED <<holidayVars, resolverVars, requestVars, leaveVars,
                  inflight>>

AddAnotherShiftAddStep ==
    /\ \E r \in RequestShiftRequests : AddAnotherShift(r) /\ req' = r
    /\ UNCHANGED <<holidayVars, resolverVars, requestVars, leaveVars,
                  inflight>>

NextShiftRequests ==
    \/ ShiftRequestCreateStep
    \/ ShiftRequestAcceptStep
    \/ SaveShiftAddStep
    \/ AddAnotherShiftAddStep

SpecShiftRequests == InitShiftRequests /\ [][NextShiftRequests]_vars

(***************************************************************************)
(* POST /rota/shift-request/:id/accept, one await at a time.  MaxProcs     *)
(* requests are in flight together; each keeps the locals of its handler   *)
(* in inflight.  Every request runs in a transaction of its own on a       *)
(* connection of its own: its writes are applied to the tables at commit   *)
(* and dropped at rollback, and SELECT ... FOR UPDATE waits while another   *)
(* transaction holds the lock on the row (InnoDB).                         *)
(***************************************************************************)
MaxProcs == 2

Procs == 1..MaxProcs

AcceptLocal(pc, rq, reqRows, empRows, txRequests, txRota, status, failedAt) ==
    [pc |-> pc, rq |-> rq, reqRows |-> reqRows, empRows |-> empRows,
     txRequests |-> txRequests, txRota |-> txRota, status |-> status,
     failedAt |-> failedAt]

AcceptIdle == AcceptLocal("idle", AcceptRequest("", 0, ""), {}, {}, {}, {}, 0, "")

\* The awaits between the lock query and the commit.
LockedRegion == {"locked", "eligible", "checked", "updated", "inserted"}

\* The transaction of request p holds the lock on ShiftRequests row id.
HoldsRowLock(p, id) ==
    /\ inflight[p].pc \in LockedRegion
    /\ inflight[p].rq.id = id

\* FOR UPDATE waiting for no lock at all.
RowLockIgnored(p, id) == TRUE

\* FOR UPDATE returns once no other transaction holds the lock on the row.
RowLockFree(p, id) == \A q \in Procs \ {p} : ~HoldsRowLock(q, id)

\* The writes of a transaction on a table: an UPDATE replaces the row of
\* its id, an INSERT adds a row.
TxApply(table, writes) ==
    {r \in table : r.id \notin {w.id : w \in writes}} \cup writes

\* A rollback that keeps what the transaction wrote.
RollbackKeepsWrites(table, writes) == TxApply(table, writes)

\* conn.rollback(): the table is as it was.
Rollback(table, writes) == table

\* conn.commit()
Commit(table, writes) == TxApply(table, writes)

\* The request answers: rollback, release, res.status(...).json(...).
AcceptAnswer(p, status, message, failedAt) ==
    LET l == inflight[p]
    IN  /\ inflight' = [inflight EXCEPT
                            ![p] = [l EXCEPT !.pc = "done", !.status = status,
                                             !.failedAt = failedAt,
                                             !.txRequests = {}, !.txRota = {}]]
        /\ shiftRequests' = Rollback(shiftRequests, l.txRequests)
        /\ rota' = Rollback(rota, l.txRota)
        /\ req' = l.rq
        /\ res' = Response("rota/shift-request/accept", status, message, 0)

\* The request moves on to its next await.
AcceptGoto(p, local) ==
    /\ inflight' = [inflight EXCEPT ![p] = local]
    /\ UNCHANGED <<rota, shiftRequests, req, res>>

\* Validation, getPool, getConnection.
AcceptBegin(p, rq) ==
    /\ inflight[p].pc = "idle"
    /\ LET l == [inflight[p] EXCEPT !.rq = rq]
       IN  IF rq.db = "" \/ rq.id = 0 \/ rq.userEmail = ""
           THEN /\ inflight' = [inflight EXCEPT
                                   ![p] = [l EXCEPT !.pc = "done", !.status = 400]]
                /\ req' = rq
                /\ res' = Response("rota/shift-request/accept", 400,
                                   "db, id, userEmail are required", 0)
                /\ UNCHANGED <<rota, shiftRequests>>
           ELSE IF getPoolThrows(rq.db)
           THEN /\ inflight' = [inflight EXCEPT
                                   ![p] = [l EXCEPT !.pc = "done", !.status = 0,
                                                    !.failedAt = "getPool"]]
                /\ req' = rq
                /\ res' = Unhandled("rota/shift-request/accept")
                /\ UNCHANGED <<rota, shiftRequests>>
           ELSE AcceptGoto(p, [l EXCEPT !.pc = "begin"])

\* beginTransaction; SELECT ... FROM ShiftRequests WHERE id = ? FOR UPDATE
AcceptLock(p) ==
    LET l == inflight[p]
        reqRows == {q \in shiftRequests : q.id = l.rq.id}
    IN  /\ l.pc = "begin"
        /\ RowLockFree(p, l.rq.id)
        /\ IF reqRows = {}
           THEN AcceptAnswer(p, 404, "Shift request not found", "")
           ELSE IF (CHOOSE q \in reqRows : TRUE).status # "pending"
           THEN /\ inflight' = [inflight EXCEPT
                                   ![p] = [l EXCEPT !.pc = "done", !.status = 409,
                                                    !.reqRows = reqRows]]
                /\ shiftRequests' = Rollback(shiftRequests, l.txRequests)
                /\ rota' = Rollback(rota, l.txRota)
                /\ req' = l.rq
                /\ res' = Response("rota/shift-request/accept", 409,
                                   "Shift already accepted/cancelled", 0)
           ELSE AcceptGoto(p, [l EXCEPT !.pc = "locked", !.reqRows = reqRows])

\* SELECT ... FROM Employees, and the eligibility test.
AcceptEmployee(p) ==
    LET l == inflight[p]
        email == ToLowerCase(Trim(l.rq.userEmail))
        empRows == {e \in Employees : ToLowerCase(Trim(e.email)) = email}
        shift == CHOOSE q \in l.reqRows : TRUE
    IN  /\ l.pc = "locked"
        /\ IF empRows = {}
           THEN AcceptAnswer(p, 403, "Employee not found in this workspace", "")
           ELSE LET emp == CHOOSE e \in empRows : TRUE
                    empDesignation == ToUpperCase(Trim(emp.designation))
                    neededFor == ToLowerCase(shift.needed_for)
                    eligible == \/ neededFor = "anyone"
                                \/ neededFor = "foh" /\ empDesignation = "FOH"
                                \/ neededFor = "boh" /\ empDesignation = "BOH"
                IN  IF ~eligible
                    THEN AcceptAnswer(p, 403, "Not eligible", "")
                    ELSE AcceptGoto(p, [l EXCEPT !.pc = "eligible",
                                                 !.empRows = empRows])

\* SELECT id FROM rota WHERE id = ? LIMIT 1
AcceptRotaCheck(p) ==
    LET l == inflight[p]
    IN  /\ l.pc = "eligible"
        /\ IF \E r \in rota : r.id = l.rq.id
           THEN AcceptAnswer(p, 409, "Shift id already exists in rota", "")
           ELSE AcceptGoto(p, [l EXCEPT !.pc = "checked"])

\* UPDATE ShiftRequests SET status='accepted', ... WHERE id=?
AcceptUpdate(p) ==
    LET l == inflight[p]
        email == ToLowerCase(Trim(l.rq.userEmail))
    IN  /\ l.pc = "checked"
        /\ AcceptGoto(p, [l EXCEPT
                !.pc = "updated",
                !.txRequests = {[q EXCEPT !.status = "accepted",
                                          !.accepted_by_email = email] :
                                    q \in {x \in shiftRequests : x.id = l.rq.id}}])

\* INSERT INTO rota (id, name, lastName, day, startTime, endTime, designation)
AcceptInsert(p) ==
    LET l == inflight[p]
        shift == CHOOSE q \in l.reqRows : TRUE
        emp == CHOOSE e \in l.empRows : TRUE
    IN  /\ l.pc = "updated"
        /\ AcceptGoto(p, [l EXCEPT
                !.pc = "inserted",
                !.txRota = {RotaRow(l.rq.id, Trim(emp.name), Trim(emp.lastName),
                                    shift.day_label, shift.start_time,
                                    shift.end_time, 0,
                                    ToUpperCase(Trim(emp.designation)))}])

\* conn.commit(); res.json({ success: true, message: "Shift accepted", id })
AcceptCommit(p) ==
    LET l == inflight[p]
    IN  /\ l.pc = "inserted"
        /\ shiftRequests' = Commit(shiftRequests, l.txRequests)
        /\ rota' = Commit(rota, l.txRota)
        /\ inflight' = [inflight EXCEPT
                            ![p] = [l EXCEPT !.pc = "done", !.status = 200,
                                             !.txRequests = {}, !.txRota = {}]]
        /\ req' = l.rq
        /\ res' = Response("rota/shift-request/accept", 200, "Shift accepted", l.rq.id)

\* An await of the try block rejects (a database error): catch, rollback,
\* 500.
AcceptCatch(p) ==
    /\ inflight[p].pc \in {"begin"} \cup LockedRegion
    /\ AcceptAnswer(p, 500, "Server error", inflight[p].pc)

\* The requests in flight: for the ids 1 and 2 and an id no request has.
ConcurrentAccepts ==
    {AcceptRequest(TenantDb, id, u) :
        id \in {1, 2, 3}, u \in {"staff@solura", "ben@solura", "nobody@solura"}}
    \cup {AcceptRequest(db, 1, "Staff@Solura") : db \in {"", "nodb"}}

PendingRequest(id, needed_for) ==
    ShiftRequestRow(id, RequestDay, formatDayLabel(RequestDay),
                    toHHMMSS(HHMM(9, 0)), toHHMMSS(HHMM(13, 0)), needed_for,
                    "pending", "am@solura", "")

\* Two pending requests; the rota is empty or holds a row with the id of the
\* second.
InitAccept ==
    /\ rota \in {{}, {RotaRow(2, "Mia", "Conti", formatDayLabel(RequestDay),
                              toHHMMSS(HHMM(9, 0)), toHHMMSS(HHMM(13, 0)), 12, "AM")}}
    /\ shiftRequests = {PendingRequest(1, "anyone"), PendingRequest(2, "foh")}
    /\ req = NoRequest
    /\ res = NoResponse
    /\ holiday = {}
    /\ notifications = <<>>
    /\ cand = NoInterval
    /\ exist = NoInterval
    /\ verdict = NoVerdict
    /\ idProbe = NoProbe
    /\ clock = 0
    /\ overview = NoOverview
    /\ accrual = NoAccrual
    /\ inflight = [p \in Procs |-> AcceptIdle]

AcceptOthers == <<holidayVars, resolverVars, idProbe, leaveVars>>

AcceptBeginStep ==
    (\E p \in Procs : \E r \in ConcurrentAccepts : AcceptBegin(p, r)) /\ UNCHANGED AcceptOthers
AcceptLockStep == (\E p \in Procs : AcceptLock(p)) /\ UNCHANGED AcceptOthers
AcceptEmployeeStep == (\E p \in Procs : AcceptEmployee(p)) /\ UNCHANGED AcceptOthers
AcceptRotaCheckStep == (\E p \in Procs : AcceptRotaCheck(p)) /\ UNCHANGED AcceptOthers
AcceptUpdateStep == (\E p \in Procs : AcceptUpdate(p)) /\ UNCHANGED AcceptOthers
AcceptInsertStep == (\E p \in Procs : AcceptInsert(p)) /\ UNCHANGED AcceptOthers
AcceptCommitStep == (\E p \in Procs : AcceptCommit(p)) /\ UNCHANGED AcceptOthers
AcceptCatchStep == (\E p \in Procs : AcceptCatch(p)) /\ UNCHANGED AcceptOthers

NextAccept ==
    \/ AcceptBeginStep
    \/ AcceptLockStep
    \/ AcceptEmployeeStep
    \/ AcceptRotaCheckStep
    \/ AcceptUpdateStep
    \/ AcceptInsertStep
    \/ AcceptCommitStep
    \/ AcceptCatchStep

SpecAccept == InitAccept /\ [][NextAccept]_vars

(***************************************************************************)
(* POST /save-shift without entryId, one await at a time, for MaxProcs     *)
(* requests in flight: the SELECT of the key's rows with the tests on its  *)
(* result, the queries of the id loop, the INSERT.  No transaction is      *)
(* opened.                                                                 *)
(***************************************************************************)
AddLocal(pc, rq, existingShifts, uniqueId, status) ==
    [pc |-> pc, rq |-> rq, existingShifts |-> existingShifts,
     uniqueId |-> uniqueId, status |-> status]

AddIdle ==
    AddLocal("idle", ShiftRequest("", 0, "", "", "", <<<<>>, <<>>>>, NoMeta), {}, 0, 0)

AddAnswer(p, rq, status, message, id) ==
    /\ inflight' = [inflight EXCEPT
                        ![p] = [@ EXCEPT !.pc = "done", !.rq = rq, !.status = status]]
    /\ req' = rq
    /\ res' = Response("save-shift", status, message, id)

\* Validation, SELECT id, startTime, endTime FROM rota WHERE name = ? AND
\* lastName = ? AND day = ?, and the overlap and limit tests on its result.
AddRead(p, rq) ==
    LET existingShifts == ShiftsOf(rota, rq.name, rq.lastName, rq.day)
    IN  /\ inflight[p].pc = "idle"
        /\ UNCHANGED <<rota, idProbe>>
        /\ IF rq.db = "" \/ rq.name = "" \/ rq.lastName = "" \/ rq.day = ""
              \/ Len(rq.startTime) = 0 \/ Len(rq.endTime) = 0
           THEN AddAnswer(p, rq, 400,
                    "Database, name, lastName, day, startTime, and endTime are required", 0)
           ELSE IF ~timeRegexTest(rq.startTime) \/ ~timeRegexTest(rq.endTime)
           THEN AddAnswer(p, rq, 400, "Time must be in HH:mm format", 0)
           ELSE IF Hour(rq.startTime) > 23 \/ Minute(rq.startTime) > 59
                   \/ Hour(rq.endTime) > 23 \/ Minute(rq.endTime) > 59
           THEN AddAnswer(p, rq, 400, "Times must be valid (HH: 0-23, MM: 0-59)", 0)
           ELSE IF getPoolThrows(rq.db)
           THEN AddAnswer(p, rq, 500, "Server error saving shift", 0)
           ELSE IF SaveShiftRejectsOverlap(rq, existingShifts)
           THEN AddAnswer(p, rq, 400, "This shift overlaps with another existing shift", 0)
           ELSE IF SaveShiftMaxReached(existingShifts)
           THEN AddAnswer(p, rq, 400, "Maximum 2 shifts per day already exist", 0)
           ELSE /\ inflight' = [inflight EXCEPT
                                   ![p] = AddLocal("read", rq, existingShifts, 0, 0)]
                /\ UNCHANGED <<req, res>>

\* while (codeExists && attempts < 10): SELECT id FROM rota WHERE id = ?
AddProbe(p) ==
    LET l == inflight[p]
    IN  /\ l.pc = "read"
        /\ UNCHANGED rota
        /\ \E picks \in PickSeqs :
              LET probe == ProbeLoop(picks, 0, {r.id : r \in rota})
              IN  /\ idProbe' = probe
                  /\ IF probe.codeExists
                     THEN AddAnswer(p, l.rq, 500, "Could not generate unique shift code", 0)
                     ELSE /\ inflight' = [inflight EXCEPT
                                             ![p] = [l EXCEPT !.pc = "probed",
                                                              !.uniqueId = probe.uniqueId]]
                          /\ UNCHANGED <<req, res>>

\* INSERT INTO rota (id, name, lastName, day, startTime, endTime, wage,
\* designation).  For an id that a row took since the probe, the INSERT
\* adds the row or fails on the key, as the table's definition has it.
AddInsert(p) ==
    LET l == inflight[p]
        rq == l.rq
    IN  /\ l.pc = "probed"
        /\ UNCHANGED idProbe
        /\ \/ /\ rota' = rota \cup
                    {RotaRow(l.uniqueId, rq.name, rq.lastName, rq.day,
                             ensureTimeWithSeconds(rq.startTime),
                             ensureTimeWithSeconds(rq.endTime),
                             rq.wage, rq.designation)}
              /\ AddAnswer(p, rq, 200, "Shift saved successfully", l.uniqueId)
           \/ /\ \E r \in rota : r.id = l.uniqueId
              /\ UNCHANGED rota
              /\ AddAnswer(p, rq, 500, "Server error saving shift", 0)

\* The adds in flight: for one key, with every time pair, and the requests
\* the validation refuses.
ConcurrentAdds ==
    {ShiftRequest(TenantDb, 0, "Ana", "Rossi", "01/01/2024 (Monday)", t, ChefMeta) :
        t \in ShiftTimes}
    \cup InvalidShiftRequests

\* The rota is empty or holds one row of the key.
InitAdd ==
    /\ rota \in {{}, {RotaRow(1, "Ana", "Rossi", "01/01/2024 (Monday)",
                              ensureTimeWithSeconds(HHMM(9, 0)),
                              ensureTimeWithSeconds(HHMM(13, 0)), 12, "Chef")}}
    /\ req = NoRequest
    /\ res = NoResponse
    /\ holiday = {}
    /\ notifications = <<>>
    /\ idProbe = NoProbe
    /\ shiftRequests = {}
    /\ clock = 0
    /\ overview = NoOverview
    /\ accrual = NoAccrual
    /\ cand = NoInterval
    /\ exist = NoInterval
    /\ verdict = NoVerdict
    /\ inflight = [p \in Procs |-> AddIdle]

AddOthers == <<holidayVars, resolverVars, requestVars, leaveVars>>

AddReadStep ==
    (\E p \in Procs : \E r \in ConcurrentAdds : AddRead(p, r)) /\ UNCHANGED AddOthers
AddProbeStep == (\E p \in Procs : AddProbe(p)) /\ UNCHANGED AddOthers
AddInsertStep == (\E p \in Procs : AddInsert(p)) /\ UNCHANGED AddOthers

NextAdd ==
    \/ AddReadStep
    \/ AddProbeStep
    \/ AddInsertStep

SpecAdd == InitAdd /\ [][NextAdd]_vars

(***************************************************************************)
(* POST /holidays/decide, one await at a time, for MaxProcs requests in    *)
(* flight: the reads up to the SELECT of the Holiday row, the UPDATE, the  *)
(* INSERT of the notifications.  No transaction is opened.                 *)
(***************************************************************************)
DecideLocal(pc, rq, holidayRows, who, status) ==
    [pc |-> pc, rq |-> rq, holidayRows |-> holidayRows, who |-> who,
     status |-> status]

DecideIdle == DecideLocal("idle", DecideRequest("", 0, "", "", ""), {}, <<>>, 0)

DecideAnswer(p, rq, status, message) ==
    /\ inflight' = [inflight EXCEPT
                        ![p] = [@ EXCEPT !.pc = "done", !.rq = rq, !.status = status]]
    /\ req' = rq
    /\ res' = Response("holidays/decide", status, message, 0)

\* From the validation to the test on the row the SELECT returned.
DecideRead(p, rq) ==
    LET dec == ToLowerCase(Trim(rq.decision))
        userRows == {u \in users : u.Email = Trim(rq.actorEmail) /\ u.db_name = rq.db}
        accessList == {ToLowerCase(Trim(u.Access)) : u \in userRows}
        actorEmpRows == {e \in Employees : e.email = Trim(rq.actorEmail)}
        who == IF \E e \in actorEmpRows : FullName(e) # <<>>
               THEN FullName(CHOOSE e \in actorEmpRows : FullName(e) # <<>>)
               ELSE <<Trim(rq.actorEmail)>>
        holidayRows == {[c \in DecideColumns |-> h[c]] : h \in {x \in holiday : x.id = rq.id}}
        currentAccepted(row) == ToLowerCase(Trim(ColumnOrEmpty(row, "accepted")))
    IN  /\ inflight[p].pc = "idle"
        /\ UNCHANGED <<holiday, notifications>>
        /\ IF rq.db = "" \/ rq.id = 0 \/ rq.decision = "" \/ rq.actorEmail = ""
           THEN DecideAnswer(p, rq, 400, "db, id, decision, actorEmail are required")
           ELSE IF dec # "approve" /\ dec # "decline"
           THEN DecideAnswer(p, rq, 400, "decision must be 'approve' or 'decline'")
           ELSE IF getPoolThrows(rq.db)
           THEN DecideAnswer(p, rq, 500, "Server error deciding holiday")
           ELSE IF userRows = {}
           THEN DecideAnswer(p, rq, 403, "Not allowed (no access for this database)")
           ELSE IF ~IsApprover(accessList)
           THEN DecideAnswer(p, rq, 403, "Not allowed")
           ELSE IF holidayRows = {}
           THEN DecideAnswer(p, rq, 404, "Holiday request not found")
           ELSE IF currentAccepted(CHOOSE h \in holidayRows : TRUE) \notin {"", "unpaid"}
           THEN DecideAnswer(p, rq, 409, "This request was already decided")
           ELSE /\ inflight' = [inflight EXCEPT
                                   ![p] = DecideLocal("read", rq, holidayRows, who, 0)]
                /\ UNCHANGED <<req, res>>

\* UPDATE Holiday SET accepted = ?, who = ?, notes = ? WHERE id = ?
DecideUpdate(p) ==
    LET l == inflight[p]
        row == CHOOSE h \in l.holidayRows : TRUE
        dec == ToLowerCase(Trim(l.rq.decision))
        declineReason == Trim(l.rq.reason)
        updatedNotes == IF dec = "decline" /\ declineReason # ""
                        THEN declineReason
                        ELSE ColumnOrEmpty(row, "notes")
    IN  /\ l.pc = "read"
        /\ holiday' = {IF h.id = l.rq.id
                       THEN [h EXCEPT !.accepted = IF dec = "approve" THEN "true" ELSE "false",
                                      !.who = l.who,
                                      !.notes = updatedNotes]
                       ELSE h : h \in holiday}
        /\ inflight' = [inflight EXCEPT ![p] = [l EXCEPT !.pc = "updated"]]
        /\ UNCHANGED <<notifications, req, res>>

\* INSERT INTO Notifications ...; res.json({ success: true, ... })
DecideNotify(p) ==
    LET l == inflight[p]
        row == CHOOSE h \in l.holidayRows : TRUE
        dec == ToLowerCase(Trim(l.rq.decision))
        title == IF dec = "approve" THEN "Holiday Approved" ELSE "Holiday Declined"
        msg == [name |-> row.name, lastName |-> row.lastName,
                startDate |-> row.startDate, endDate |-> row.endDate,
                by |-> l.who,
                reason |-> IF dec = "approve" THEN "" ELSE Trim(l.rq.reason)]
    IN  /\ l.pc = "updated"
        /\ notifications' = notifications
              \o <<Notification("AM", title, msg), Notification("Manager", title, msg)>>
        /\ DecideAnswer(p, l.rq, 200, "Decision saved")
        /\ UNCHANGED holiday

\* A query of the try block rejects: 500.  What was written stays.
DecideCatch(p) ==
    /\ inflight[p].pc \in {"read", "updated"}
    /\ DecideAnswer(p, inflight[p].rq, 500, "Server error deciding holiday")
    /\ UNCHANGED <<holiday, notifications>>

ConcurrentDecides ==
    {DecideRequest(TenantDb, id, d, a, r) :
        id \in 1..3, d \in {"approve", "decline"}, a \in Approvers, r \in Reasons}
    \cup {DecideRequest(TenantDb, 1, "approve", a, "") : a \in NonApprovers}
    \cup {DecideRequest(db, 1, d, "am@solura", "") :
            db \in {"", "nodb", TenantDb}, d \in {"maybe", "approve"}}

InitDecide ==
    /\ rota = {}
    /\ req = NoRequest
    /\ res = NoResponse
    /\ holiday = PendingHolidays
    /\ notifications = <<>>
    /\ idProbe = NoProbe
    /\ shiftRequests = {}
    /\ clock = 0
    /\ overview = NoOverview
    /\ accrual = NoAccrual
    /\ cand = NoInterval
    /\ exist = NoInterval
    /\ verdict = NoVerdict
    /\ inflight = [p \in Procs |-> DecideIdle]

DecideOthers == <<rota, resolverVars, idProbe, requestVars, leaveVars>>

DecideReadStep ==
    (\E p \in Procs : \E r \in ConcurrentDecides : DecideRead(p, r)) /\ UNCHANGED DecideOthers
DecideUpdateStep == (\E p \in Procs : DecideUpdate(p)) /\ UNCHANGED DecideOthers
DecideNotifyStep == (\E p \in Procs : DecideNotify(p)) /\ UNCHANGED DecideOthers
DecideCatchStep == (\E p \in Procs : DecideCatch(p)) /\ UNCHANGED DecideOthers

NextDecide ==
    \/ DecideReadStep
    \/ DecideUpdateStep
    \/ DecideNotifyStep
    \/ DecideCatchStep

SpecDecide == InitDecide /\ [][NextDecide]_vars

(***************************************************************************)
(* GET /holidays: calcAccrued.  Amounts of days are fractions num / den    *)
(* with den > 0, so that a division is not rounded.                        *)
(***************************************************************************)
Frac(n, d) == [num |-> n, den |-> d]
FracLeq(a, b) == a.num * b.den <= b.num * a.den
FracMin(a, b) == IF FracLeq(a, b) THEN a ELSE b

\* The accrual left to grow past the end of the year: neither the return
\* after the window nor the Math.min.
calcAccruedUncapped(allowanceDays, yearStart, yearEnd, today) ==
    IF allowanceDays = 0 THEN Frac(0, 1)
    ELSE LET ys == StartOfDay(yearStart)
             ye == EndOfDay(yearEnd)
         IN  IF today < ys THEN Frac(0, 1)
             ELSE Frac(allowanceDays * (((today - ys) \div TicksPerDay) + 1),
                       ((ye - ys) \div TicksPerDay) + 1)

\* The allowance taken as expired after the window: if (today > ye) return 0.
calcAccruedExpired(allowanceDays, yearStart, yearEnd, today) ==
    IF allowanceDays = 0 THEN Frac(0, 1)
    ELSE LET ys == StartOfDay(yearStart)
             ye == EndOfDay(yearEnd)
         IN  IF today < ys \/ today > ye THEN Frac(0, 1)
             ELSE FracMin(Frac(allowanceDays, 1),
                          Frac(allowanceDays * (((today - ys) \div TicksPerDay) + 1),
                               ((ye - ys) \div TicksPerDay) + 1))

\* The elapsed days counted without the start day: no "+ 1".
calcAccruedExclusive(allowanceDays, yearStart, yearEnd, today) ==
    IF allowanceDays = 0 THEN Frac(0, 1)
    ELSE LET ys == StartOfDay(yearStart)
             ye == EndOfDay(yearEnd)
         IN  IF today < ys THEN Frac(0, 1)
             ELSE IF today > ye THEN Frac(allowanceDays, 1)
             ELSE FracMin(Frac(allowanceDays, 1),
                          Frac(allowanceDays * ((today - ys) \div TicksPerDay),
                               ((ye - ys) \div TicksPerDay) + 1))

\* calcAccrued(yearStart, yearEnd) for the employee's allowanceDays, with
\* today = new Date().  yearStart and yearEnd are day numbers.
calcAccrued(allowanceDays, yearStart, yearEnd, today) ==
    IF allowanceDays = 0 THEN Frac(0, 1)
    ELSE LET ys == StartOfDay(yearStart)
             ye == EndOfDay(yearEnd)
         IN  IF today < ys THEN Frac(0, 1)
             ELSE IF today > ye THEN Frac(allowanceDays, 1)
             ELSE LET totalDays == ((ye - ys) \div TicksPerDay) + 1
                      elapsedDays == ((today - ys) \div TicksPerDay) + 1
                      accrued == Frac(allowanceDays * elapsedDays, totalDays)
                  IN  FracMin(Frac(allowanceDays, 1), accrued)

(***************************************************************************)
(* calcAccrued run on its own: an allowance, a holiday-year window and two *)
(* readings of the clock are drawn, and the accrual is computed for both.  *)
(***************************************************************************)
Window(start, end) == [start |-> start, end |-> end]

AccrualAllowances == {0, 1, 4, 28}

AccrualWindows ==
    { Window(DayNumber(2024, 1, 1), DayNumber(2024, 12, 31)),
      Window(DayNumber(2024, 3, 1), DayNumber(2024, 3, 4)),
      Window(DayNumber(2024, 3, 2), DayNumber(2024, 3, 2)) }

AccrualDays ==
    { DayNumber(2023, 12, 31), DayNumber(2024, 1, 1), DayNumber(2024, 2, 29),
      DayNumber(2024, 3, 1), DayNumber(2024, 3, 2), DayNumber(2024, 3, 3),
      DayNumber(2024, 3, 4), DayNumber(2024, 3, 5), DayNumber(2024, 7, 1),
      DayNumber(2024, 12, 31), DayNumber(2025, 1, 1) }

\* Readings of the clock: the first, the second and the last tick of a day.
AccrualTodays ==
    {StartOfDay(d) + t : d \in AccrualDays, t \in {0, 1, TicksPerDay - 1}}

InitAccrual ==
    /\ rota = {}
    /\ req = NoRequest
    /\ res = NoResponse
    /\ holiday = {}
    /\ notifications = <<>>
    /\ cand = NoInterval
    /\ exist = NoInterval
    /\ verdict = NoVerdict
    /\ idProbe = NoProbe
    /\ shiftRequests = {}
    /\ clock = 0
    /\ overview = NoOverview
    /\ accrual \in {[computed |-> FALSE, allowanceDays |-> a, window |-> w,
                     today1 |-> d1, today2 |-> d2, accrued1 |-> Frac(0, 1),
                     accrued2 |-> Frac(0, 1)] :
                    a \in AccrualAllowances, w \in AccrualWindows,
                    d1 \in AccrualTodays, d2 \in AccrualTodays}
    /\ inflight = NoInflight

CalcAccruedStep ==
    /\ ~accrual.computed
    /\ accrual' =
         [accrual EXCEPT
            !.computed = TRUE,
            !.accrued1 = calcAccrued(accrual.allowanceDays, accrual.window.start,
                                     accrual.window.end, accrual.today1),
            !.accrued2 = calcAccrued(accrual.allowanceDays, accrual.window.start,
                                     accrual.window.end, accrual.today2)]
    /\ UNCHANGED <<rota, req, res, holidayVars, resolverVars, idProbe, requestVars,
                   clock, overview, inflight>>

NextAccrual == CalcAccruedStep

SpecAccrual == InitAccrual /\ [][NextAccrual]_vars

(***************************************************************************)
(* Holiday requests and the holiday overview: POST /holidays/request and   *)
(* GET /holidays.                                                          *)
(***************************************************************************)
MaxHolidays == 2

\* HolidayYearSettings is written by no handler: two holiday years.
HolidayYearSettings ==
    { Window(DayNumber(2023, 1, 1), DayNumber(2023, 12, 31)),
      Window(DayNumber(2024, 1, 1), DayNumber(2024, 12, 31)) }

\* The position of the first c in s, or 0.
IndexOf(s, c) ==
    IF \E i \in 1..Len(s) : s[i] = c
    THEN CHOOSE i \in 1..Len(s) : s[i] = c /\ \A j \in 1..(i - 1) : s[j] # c
    ELSE 0

\* s.split(c)
RECURSIVE SplitAt(_, _)
SplitAt(s, c) ==
    LET i == IndexOf(s, c)
    IN  IF i = 0 THEN <<s>>
        ELSE <<SubSeq(s, 1, i - 1)>> \o SplitAt(SubSeq(s, i + 1, Len(s)), c)

\* s.trim() of a text of character codes.
RECURSIVE TrimChars(_)
TrimChars(s) ==
    IF s = <<>> THEN s
    ELSE IF s[1] = Space THEN TrimChars(Tail(s))
    ELSE IF s[Len(s)] = Space THEN TrimChars(SubSeq(s, 1, Len(s) - 1))
    ELSE s

\* parseInt(s, 10) where only its truth is tested afterwards: NaN is 0.
RECURSIVE LeadingDigits(_)
LeadingDigits(s) ==
    IF s = <<>> \/ ~IsDigit(s[1]) THEN <<>>
    ELSE <<s[1]>> \o LeadingDigits(Tail(s))

parseInt(s) == ToNumber(LeadingDigits(s))

\* /^(\d{2})\/(\d{2})\/(\d{4})/ matches a prefix of s.
HasSlashDatePrefix(s) ==
    /\ Len(s) >= 10
    /\ AllDigits(SubSeq(s, 1, 2)) /\ s[3] = Slash
    /\ AllDigits(SubSeq(s, 4, 5)) /\ s[6] = Slash
    /\ AllDigits(SubSeq(s, 7, 10))

\* /^(\d{2})\/(\d{2})\/(\d{4})\s*\([A-Za-z]+\)$/ on the texts the model
\* carries: a date, one space and a name in brackets.
IsLetter(c) == (c >= 65 /\ c <= 90) \/ (c >= 97 /\ c <= 122)

IsSlashDateWithDay(s) ==
    /\ HasSlashDatePrefix(s)
    /\ Len(s) >= 14
    /\ s[11] = Space /\ s[12] = 40 /\ s[Len(s)] = 41
    /\ \A i \in 13..(Len(s) - 1) : IsLetter(s[i])

NoDate == [ok |-> FALSE, day |-> 0]
DateOn(dayNumber) == [ok |-> TRUE, day |-> dayNumber]

\* parseToUTCDate of POST /holidays/request: the UTC day of the text.
parseToUTCDate(input) ==
    LET s == TrimChars(input)
    IN  IF HasSlashDatePrefix(s)
        THEN DateOn(DayNumber(ToNumber(SubSeq(s, 7, 10)), ToNumber(SubSeq(s, 4, 5)),
                              ToNumber(SubSeq(s, 1, 2))))
        ELSE IF IsIsoDate(s)
        THEN DateOn(DayNumber(ToNumber(SubSeq(s, 1, 4)), ToNumber(SubSeq(s, 6, 7)),
                              ToNumber(SubSeq(s, 9, 10))))
        ELSE NoDate

\* formatDateWithDay: "dd/mm/yyyy (Weekday)" of a date text.
formatDateWithDay(dateString) ==
    LET str == TrimChars(dateString)
    IN  IF dateString = <<>> THEN <<>>
        ELSE IF IsSlashDateWithDay(str) THEN str
        ELSE IF Len(str) = 10 /\ HasSlashDatePrefix(str)
        THEN str \o <<Space, 40>>
             \o Weekday(DayNumber(ToNumber(SubSeq(str, 7, 10)),
                                  ToNumber(SubSeq(str, 4, 5)),
                                  ToNumber(SubSeq(str, 1, 2))))
             \o <<41>>
        ELSE IF IsIsoDate(str)
        THEN SubSeq(str, 9, 10) \o <<Slash>> \o SubSeq(str, 6, 7) \o <<Slash>>
             \o SubSeq(str, 1, 4) \o <<Space, 40>>
             \o Weekday(DayNumber(ToNumber(SubSeq(str, 1, 4)),
                                  ToNumber(SubSeq(str, 6, 7)),
                                  ToNumber(SubSeq(str, 9, 10))))
             \o <<41>>
        ELSE str

\* The id of an inserted Holiday row: AUTO_INCREMENT, rows are never deleted.
NextHolidayId == Cardinality(holiday) + 1

HolidaysRequest(rq) ==
    LET op == "holidays/request"
        employeeRows == {e \in Employees : e.email = rq.email}
    IN
    IF rq.db = "" \/ rq.email = "" \/ rq.startDate = <<>> \/ rq.endDate = <<>>
    THEN /\ res' = Response(op, 400, "db, email, startDate and endDate are required", 0)
         /\ UNCHANGED <<holiday, notifications>>
    ELSE IF getPoolThrows(rq.db)
    THEN /\ res' = Response(op, 500, "Server error requesting holiday", 0)
         /\ UNCHANGED <<holiday, notifications>>
    ELSE IF employeeRows = {}
    THEN /\ res' = Response(op, 404, "Employee not found", 0)
         /\ UNCHANGED <<holiday, notifications>>
    ELSE LET employee == CHOOSE e \in employeeRows : TRUE
             sUTC == parseToUTCDate(rq.startDate)
             eUTC == parseToUTCDate(rq.endDate)
             diff == (eUTC.day - sUTC.day) + 1
             acceptedValue == IF ToLowerCase(rq.type) = "unpaid" THEN "unpaid" ELSE ""
             formattedStart == formatDateWithDay(rq.startDate)
             formattedEnd == formatDateWithDay(rq.endDate)
             message == [name |-> employee.name, lastName |-> employee.lastName,
                         startDate |-> formattedStart, endDate |-> formattedEnd,
                         days |-> diff, type |-> rq.type]
         IN  IF ~sUTC.ok \/ ~eUTC.ok
             THEN /\ res' = Response(op, 400, "Invalid date format", 0)
                  /\ UNCHANGED <<holiday, notifications>>
             ELSE IF diff <= 0
             THEN /\ res' = Response(op, 400, "Invalid holiday period", 0)
                  /\ UNCHANGED <<holiday, notifications>>
             ELSE /\ holiday' = holiday \cup
                        {HolidayRow(NextHolidayId, employee.name, employee.lastName,
                                    formattedStart, formattedEnd, diff, acceptedValue,
                                    rq.notes)
                         @@ [requestDate |-> clock]}
                  /\ notifications' = notifications
                        \o <<Notification("AM", "New Holiday Request", message),
                             Notification("Manager", "New Holiday Request", message)>>
                  /\ res' = Response(op, 200, "Holiday request submitted", 0)

\* ORDER BY HolidayYearStart DESC
RECURSIVE OrderByStartDesc(_)
OrderByStartDesc(windows) ==
    IF windows = {} THEN <<>>
    ELSE LET latest == CHOOSE w \in windows : \A v \in windows : v.start <= w.start
         IN  <<latest>> \o OrderByStartDesc(windows \ {latest})

\* ORDER BY requestDate DESC; rows of one request date by id.
RECURSIVE OrderByRequestDateDesc(_)
OrderByRequestDateDesc(rows) ==
    IF rows = {} THEN <<>>
    ELSE LET first == CHOOSE r \in rows : \A q \in rows :
                          \/ q.requestDate < r.requestDate
                          \/ (q.requestDate = r.requestDate /\ q.id >= r.id)
         IN  <<first>> \o OrderByRequestDateDesc(rows \ {first})

NoWindow == [found |-> FALSE]

\* findYearWindowForDate(dateObj): the first year row that contains it.
RECURSIVE findYearWindowForDate(_, _)
findYearWindowForDate(dateObj, yearRows) ==
    IF yearRows = <<>> THEN NoWindow
    ELSE LET y == Head(yearRows)
         IN  IF dateObj >= StartOfDay(y.start) /\ dateObj <= EndOfDay(y.end)
             THEN [found |-> TRUE, start |-> y.start, end |-> y.end]
             ELSE findYearWindowForDate(dateObj, Tail(yearRows))

\* parseDDMMYYYY(s): the start of the day of "dd/mm/yyyy ...", or null.
parseDDMMYYYY(s) ==
    LET d == SplitAt(TrimChars(s), Space)[1]
        parts == SplitAt(d, Slash)
    IN  IF Len(parts) # 3 THEN NoDate
        ELSE LET dd == parseInt(parts[1])
                 mm == parseInt(parts[2])
                 yyyy == parseInt(parts[3])
             IN  IF dd = 0 \/ mm = 0 \/ yyyy = 0 THEN NoDate
                 ELSE DateOn(DayNumber(yyyy, mm, dd))

\* A declined row that carries the decider's name read as approved: the
\* test of who before the test of accepted.
normalizeRowWhoFirst(row) ==
    LET acceptedRaw == ToLowerCase(Trim(row.accepted))
        isUnpaid == acceptedRaw = "unpaid"
    IN  [startDate |-> row.startDate, endDate |-> row.endDate,
         requestDate |-> row.requestDate, days |-> row.days, who |-> row.who,
         notes |-> row.notes,
         status |-> IF row.who # <<>>
                    THEN (IF isUnpaid THEN "Approved (Unpaid)" ELSE "Approved (Paid)")
                    ELSE IF acceptedRaw = "false" THEN "Declined"
                    ELSE "Pending",
         type |-> IF isUnpaid THEN "Unpaid" ELSE "Paid",
         accepted |-> acceptedRaw]

normalizeRow(row) ==
    LET acceptedRaw == ToLowerCase(Trim(row.accepted))
        who == row.who
        isApproved == who # <<>>
        isUnpaid == acceptedRaw = "unpaid"
        isDeclined == acceptedRaw = "false"
    IN  [startDate |-> row.startDate, endDate |-> row.endDate,
         requestDate |-> row.requestDate, days |-> row.days, who |-> who,
         notes |-> row.notes,
         status |-> IF isDeclined THEN "Declined"
                    ELSE IF isApproved
                    THEN (IF isUnpaid THEN "Approved (Unpaid)" ELSE "Approved (Paid)")
                    ELSE "Pending",
         type |-> IF isUnpaid THEN "Unpaid" ELSE "Paid",
         accepted |-> acceptedRaw]

\* Number(x.toFixed(2)) of a fraction, in hundredths of a day.
ToFixed2(x) == (200 * x.num + x.den) \div (2 * x.den)

\* `${yearStart} → ${yearEnd}`
YearKey(yearStart, yearEnd) == <<yearStart, yearEnd>>
NoYearKey == <<>>

\* The bucket ensureYearBucket creates.  accruedDays is in hundredths of a
\* day, the counters are in days.
NewYearBucket(allowanceDays, yearStart, yearEnd, today) ==
    [key |-> YearKey(yearStart, yearEnd), start |-> yearStart, end |-> yearEnd,
     allowanceDays |-> allowanceDays,
     accruedDays |-> ToFixed2(calcAccrued(allowanceDays, yearStart, yearEnd, today)),
     takenPaidDays |-> 0, takenUnpaidDays |-> 0, pendingPaidDays |-> 0,
     pendingUnpaidDays |-> 0, declinedDays |-> 0,
     pendingHolidays |-> <<>>, approvedHolidays |-> <<>>, declinedHolidays |-> <<>>]

\* The body of the loop over allRows for a row mapped to bucket.
AddToBucket(bucket, item) ==
    LET days == item.days
        status == ToLowerCase(item.status)
        type == ToLowerCase(item.type)
    IN  IF status \in {"approved (paid)", "approved (unpaid)"}
        THEN IF type = "paid"
             THEN [bucket EXCEPT !.approvedHolidays = Append(@, item),
                                 !.takenPaidDays = @ + days]
             ELSE [bucket EXCEPT !.approvedHolidays = Append(@, item),
                                 !.takenUnpaidDays = @ + days]
        ELSE IF status = "declined"
        THEN [bucket EXCEPT !.declinedHolidays = Append(@, item),
                            !.declinedDays = @ + days]
        ELSE IF type = "paid"
        THEN [bucket EXCEPT !.pendingHolidays = Append(@, item),
                            !.pendingPaidDays = @ + days]
        ELSE [bucket EXCEPT !.pendingHolidays = Append(@, item),
                            !.pendingUnpaidDays = @ + days]

\* for (const row of allRows) { ... }: yearsMap in the order of insertion.
RECURSIVE GroupIntoYears(_, _, _, _, _)
GroupIntoYears(allRows, yearsMap, yearRows, allowanceDays, today) ==
    IF allRows = <<>> THEN yearsMap
    ELSE LET row == Head(allRows)
             startDt == parseDDMMYYYY(row.startDate)
             win == IF startDt.ok
                    THEN findYearWindowForDate(StartOfDay(startDt.day), yearRows)
                    ELSE NoWindow
         IN  IF ~startDt.ok \/ ~win.found
             THEN GroupIntoYears(Tail(allRows), yearsMap, yearRows, allowanceDays, today)
             ELSE LET key == YearKey(win.start, win.end)
                      ensured ==
                          IF \E i \in 1..Len(yearsMap) : yearsMap[i].key = key
                          THEN yearsMap
                          ELSE Append(yearsMap,
                                      NewYearBucket(allowanceDays, win.start, win.end,
                                                    today))
                      at == CHOOSE i \in 1..Len(ensured) : ensured[i].key = key
                      item == normalizeRow(row)
                  IN  GroupIntoYears(Tail(allRows),
                                     [ensured EXCEPT ![at] = AddToBucket(@, item)],
                                     yearRows, allowanceDays, today)

Max2(a, b) == IF a >= b THEN a ELSE b
Min2(a, b) == IF a <= b THEN a ELSE b

\* The balances left to go below zero: no Math.max(0, ...).
FinalizeYearBelowZero(y) ==
    y @@ [remainingYearDays |-> 100 * (y.allowanceDays - y.takenPaidDays),
          availableNowDays |-> Min2(y.accruedDays, 100 * y.allowanceDays)
                               - 100 * y.takenPaidDays]

\* The map over the buckets: { ...y, remainingYearDays, availableNowDays },
\* the balances in hundredths of a day.
FinalizeYear(y) ==
    y @@ [remainingYearDays |-> Max2(0, 100 * (y.allowanceDays - y.takenPaidDays)),
          availableNowDays |-> Max2(0, Min2(y.accruedDays, 100 * y.allowanceDays)
                                       - 100 * y.takenPaidDays)]

\* .sort((a, b) => new Date(b.start) - new Date(a.start))
RECURSIVE SortLatestFirst(_)
SortLatestFirst(years) ==
    IF years = <<>> THEN <<>>
    ELSE LET at == CHOOSE i \in 1..Len(years) :
                       /\ \A j \in 1..Len(years) : years[j].start <= years[i].start
                       /\ \A j \in 1..(i - 1) : years[j].start < years[i].start
         IN  <<years[at]>>
             \o SortLatestFirst(SubSeq(years, 1, at - 1) \o SubSeq(years, at + 1, Len(years)))

\* The key of the first year that contains today, or null.
RECURSIVE CurrentYearKey(_, _)
CurrentYearKey(years, today) ==
    IF years = <<>> THEN NoYearKey
    ELSE IF today >= StartOfDay(Head(years).start) /\ today <= EndOfDay(Head(years).end)
    THEN Head(years).key
    ELSE CurrentYearKey(Tail(years), today)

GetHolidays(rq) ==
    LET op == "holidays"
        employeeRows == {e \in Employees : e.email = rq.email}
    IN
    IF rq.db = "" \/ rq.email = ""
    THEN /\ res' = Response(op, 400, "Database and email are required", 0)
         /\ overview' = NoOverview
    ELSE IF getPoolThrows(rq.db)
    THEN /\ res' = Response(op, 500, "Server error", 0)
         /\ overview' = NoOverview
    ELSE IF employeeRows = {}
    THEN /\ res' = Response(op, 404, "Employee not found", 0)
         /\ overview' = NoOverview
    ELSE LET employee == CHOOSE e \in employeeRows : TRUE
             allowanceDays == employee.startHoliday
             yearRows == OrderByStartDesc(HolidayYearSettings)
             allRows == OrderByRequestDateDesc(
                            {h \in holiday : /\ h.name = employee.name
                                             /\ h.lastName = employee.lastName})
             yearsMap == GroupIntoYears(allRows, <<>>, yearRows, allowanceDays, clock)
             years == SortLatestFirst([i \in 1..Len(yearsMap) |->
                                           FinalizeYear(yearsMap[i])])
         IN  /\ res' = Response(op, 200, "", 0)
             /\ overview' = [success |-> TRUE,
                             employee |-> [name |-> employee.name,
                                           lastName |-> employee.lastName,
                                           allowanceDays |-> allowanceDays],
                             currentYearKey |-> CurrentYearKey(years, clock),
                             years |-> years]

(***************************************************************************)
(* The leave specification: requests for leave, decisions on them and the  *)
(* overview, handled one at a time.  overview is the body of the answer to *)
(* the last request when that was a GET /holidays that succeeded.          *)
(***************************************************************************)
LeaveRequest(db, email, startDate, endDate, type) ==
    [db |-> db, email |-> email, startDate |-> startDate, endDate |-> endDate,
     notes |-> "", type |-> type]

LeaveTypes == {"Paid", "Unpaid"}

\* Five days of the holiday year 2024, six days that start in 2023, and a
\* day of 2025, which no configured holiday year contains.
LeavePeriods ==
    { <<SlashDate(2024, 2, 5), SlashDate(2024, 2, 9)>>,
      <<SlashDate(2023, 12, 28), SlashDate(2024, 1, 2)>>,
      <<IsoDate(2025, 3, 3), IsoDate(2025, 3, 3)>> }

LeaveRequests ==
    {LeaveRequest(TenantDb, "staff@solura", p[1], p[2], t) :
        p \in LeavePeriods, t \in LeaveTypes}
    \cup {LeaveRequest(TenantDb, "ben@solura", SlashDate(2024, 2, 5),
                       SlashDate(2024, 2, 9), t) : t \in LeaveTypes}
    \cup {LeaveRequest(db, "staff@solura", SlashDate(2024, 2, 5),
                       SlashDate(2024, 2, 9), "Paid") : db \in {"", "nodb"}}
    \cup {LeaveRequest(TenantDb, "nobody@solura", SlashDate(2024, 2, 5),
                       SlashDate(2024, 2, 9), "Paid"),
          LeaveRequest(TenantDb, "staff@solura", <<115, 111, 111, 110>>,
                       SlashDate(2024, 2, 9), "Paid"),
          LeaveRequest(TenantDb, "staff@solura", SlashDate(2024, 2, 9),
                       SlashDate(2024, 2, 5), "Paid")}

LeaveDecideRequests ==
    {DecideRequest(TenantDb, id, d, "am@solura", "") :
        id \in 1..MaxHolidays, d \in {"approve", "decline"}}
    \cup {DecideRequest(TenantDb, 1, "approve", "staff@solura", "")}

OverviewRequest(db, email) == [db |-> db, email |-> email]

OverviewRequests ==
    {OverviewRequest(TenantDb, e) : e \in {"staff@solura", "ben@solura", "nobody@solura"}}
    \cup {OverviewRequest(db, "staff@solura") : db \in {"", "nodb"}}

\* The server's clock: two days before the holiday year 2024 and on its
\* 183rd day.
LeaveClocks ==
    { StartOfDay(DayNumber(2023, 12, 30)) + 1,
      StartOfDay(DayNumber(2024, 7, 1)) + TicksPerDay - 1 }

InitLeave ==
    /\ rota = {}
    /\ req = NoRequest
    /\ res = NoResponse
    /\ holiday = {}
    /\ notifications = <<>>
    /\ cand = NoInterval
    /\ exist = NoInterval
    /\ verdict = NoVerdict
    /\ idProbe = NoProbe
    /\ shiftRequests = {}
    /\ clock \in LeaveClocks
    /\ overview = NoOverview
    /\ accrual = NoAccrual
    /\ inflight = NoInflight

HolidaysRequestStep ==
    /\ Cardinality(holiday) < MaxHolidays
    /\ Len(notifications) < 2 * MaxDecisions
    /\ \E r \in LeaveRequests : HolidaysRequest(r) /\ req' = r
    /\ overview' = NoOverview
    /\ UNCHANGED <<rota, resolverVars, idProbe, requestVars, clock, accrual,
                  inflight>>

HolidaysDecideLeaveStep ==
    /\ Len(notifications) < 2 * MaxDecisions
    /\ \E r \in LeaveDecideRequests : HolidaysDecide(r) /\ req' = r
    /\ overview' = NoOverview
    /\ UNCHANGED <<rota, resolverVars, idProbe, requestVars, clock, accrual,
                  inflight>>

GetHolidaysStep ==
    /\ \E r \in OverviewRequests : GetHolidays(r) /\ req' = r
    /\ UNCHANGED <<rota, holidayVars, resolverVars, idProbe, requestVars, clock,
                   accrual, inflight>>

NextLeave == HolidaysRequestStep \/ HolidaysDecideLeaveStep \/ GetHolidaysStep

SpecLeave == InitLeave /\ [][NextLeave]_vars

(***************************************************************************)
(* Intervals as the specification reads them: minutes of the day, the end  *)
(* moved to the next day when the interval wraps (end <= start).           *)
(***************************************************************************)
\* Minutes since midnight of a time "HH:mm" or "HH:mm:ss".
ClockMinutes(t) ==
    ((t[1] - Digit0) * 10 + (t[2] - Digit0)) * 60
    + (t[4] - Digit0) * 10 + (t[5] - Digit0)

LinearStart(i) == ClockMinutes(i.startTime)

LinearEnd(i) ==
    IF ClockMinutes(i.endTime) <= ClockMinutes(i.startTime)
    THEN ClockMinutes(i.endTime) + MinutesPerDay
    ELSE ClockMinutes(i.endTime)

\* The half-open intervals [start, end) have a minute in common.
LinearOverlap(a, b) ==
    LinearStart(a) < LinearEnd(b) /\ LinearEnd(a) > LinearStart(b)

\* One interval starts at the time of day at which the other ends.
Touching(a, b) ==
    \/ ClockMinutes(a.startTime) = ClockMinutes(b.endTime)
    \/ ClockMinutes(a.endTime) = ClockMinutes(b.startTime)

(***************************************************************************)
(* Claims on the overlap resolver (SpecResolver).                          *)
(***************************************************************************)
\* C3: a candidate that only touches the existing interval (its start is the
\* other's end, or its end the other's start, and they have no minute in
\* common) is not reported as overlapping.
C3_TouchingNeverConflicts ==
    (verdict.decided /\ Touching(cand, exist) /\ ~LinearOverlap(cand, exist))
        => ~verdict.forward

\* C4: the decision is symmetric: candidate A against existing B overlaps
\* exactly when candidate B against existing A does.
C4_OverlapSymmetric ==
    verdict.decided => (verdict.forward <=> verdict.backward)

\* C5: the resolver reports a conflict exactly when the linearized intervals
\* satisfy candidate.start < existing.end and candidate.end > existing.start.
C5_OverlapIsLinearOverlap ==
    verdict.decided => (verdict.forward <=> LinearOverlap(cand, exist))

(***************************************************************************)
(* Claims on the shift registry (Spec).                                    *)
(***************************************************************************)
RowsOfKey(table, name, lastName, day) ==
    {r \in table : r.name = name /\ r.lastName = lastName /\ r.day = day}

SameKey(r1, r2) ==
    r1.name = r2.name /\ r1.lastName = r2.lastName /\ r1.day = r2.day

ConflictMessages ==
    { "Maximum 2 shifts per day already exist",
      "This shift overlaps with another existing shift",
      "New shift overlaps with existing shift" }

IsConflict(r) == r.status = 400 /\ r.message \in ConflictMessages

\* The add requests: well-formed, without entryId.
ValidAddRequests == {r \in ValidShiftRequests : r.entryId = 0}

AddOps == {"save-shift", "add-another-shift"}

\* C1: no (name, lastName, day) ever has more than 2 rows, and once it has 2
\* rows every further add for it, through either endpoint, is rejected with
\* a conflict error and the rota is unchanged.
C1_AtMostTwoShifts ==
    [][ /\ \A r \in rota' :
              Cardinality(RowsOfKey(rota', r.name, r.lastName, r.day)) <= 2
        /\ (/\ res'.op \in AddOps
            /\ req' \in ValidAddRequests
            /\ Cardinality(RowsOfKey(rota, req'.name, req'.lastName, req'.day)) >= 2)
           => (IsConflict(res') /\ rota' = rota)
      ]_vars

\* A third add for a key that has 2 rows was refused for the limit.
C1_Witness ==
    /\ res.op \in AddOps
    /\ res.status = 400
    /\ res.message = "Maximum 2 shifts per day already exist"
    /\ Cardinality(RowsOfKey(rota, req.name, req.lastName, req.day)) = 2

\* C2: starting from an empty rota, no two rows of the same (name, lastName,
\* day) overlap as half-open intervals [start, end), the end taken on the
\* next day when end <= start.
C2_NoOverlappingRows ==
    \A r1 \in rota : \A r2 \in rota :
        (r1 # r2 /\ SameKey(r1, r2)) => ~LinearOverlap(r1, r2)

\* C6: a save-shift whose entryId matches no row answers not-found and
\* leaves the rota unchanged.
C6_UpdateUnknownIdNotFound ==
    [][ (/\ res'.op = "save-shift"
         /\ req' \in ValidShiftRequests
         /\ req'.entryId # 0
         /\ \A r \in rota : r.id # req'.entryId)
        => (res'.status = 404 /\ rota' = rota)
      ]_vars

\* C7: delete-shift with an id in the rota removes the one row with that id
\* and no other; with an id not in the rota it answers not-found and changes
\* nothing.  After either, no row has the id.
C7_DeleteRemovesExactlyThatRow ==
    [][ (res'.op = "delete-shift" /\ req'.db = TenantDb /\ req'.entryId # 0)
        => IF \E r \in rota : r.id = req'.entryId
           THEN /\ res'.status = 200
                /\ Cardinality(rota \ rota') = 1
                /\ rota' = {r \in rota : r.id # req'.entryId}
           ELSE /\ res'.status = 404
                /\ rota' = rota
      ]_vars

\* A row was deleted and other rows are still there.
C7_Witness ==
    /\ res.op = "delete-shift"
    /\ res.status = 200
    /\ Cardinality(rota) >= 2

\* C8: a save-shift or add-another-shift answered with a validation or a
\* conflict error (status 400) leaves the rota as it was.
C8_RejectedRequestChangesNothing ==
    [][ (res'.op \in AddOps /\ res'.status = 400) => rota' = rota ]_vars

\* A request was refused for overlap while the rota held rows.
C8_Witness ==
    /\ res.op \in AddOps
    /\ res.status = 400
    /\ res.message \in ConflictMessages \ {"Maximum 2 shifts per day already exist"}
    /\ rota # {}

(***************************************************************************)
(* Claims on the holiday decisions (SpecHoliday).                          *)
(***************************************************************************)
ApproverLevels == {"am", "AM", "manager"}

\* The actor has an access row for the tenant with level am or manager.
ActorIsApprover(email, db) ==
    \E u \in users :
        u.Email = email /\ u.db_name = db /\ u.Access \in ApproverLevels

\* Every field present, the decision one of the two, the tenant known.
WellFormedDecide(rq) ==
    /\ rq.id # 0
    /\ rq.actorEmail # ""
    /\ rq.decision \in {"approve", "decline", " Decline"}
    /\ rq.db \in databasesConfig

\* C9: once a decide on a holiday id has succeeded, every later decide on
\* that id by an approver answers 409 (already decided) and leaves the row's
\* accepted, who and notes as they are.
C9_DecisionIsFinal ==
    [][ (/\ res'.op = "holidays/decide"
         /\ WellFormedDecide(req')
         /\ ActorIsApprover(req'.actorEmail, req'.db)
         /\ \E h \in holiday : h.id = req'.id /\ h.who # <<>>)
        => (res'.status = 409 /\ holiday' = holiday)
      ]_vars

\* C10: a decide by an actor without access row for the tenant, or whose
\* level there is neither am nor manager, changes neither Holiday nor
\* Notifications, and a well-formed one is answered 403.
C10_UnauthorizedDecideRefused ==
    [][ (res'.op = "holidays/decide" /\ ~ActorIsApprover(req'.actorEmail, req'.db))
        => /\ holiday' = holiday
           /\ notifications' = notifications
           /\ WellFormedDecide(req') => res'.status = 403
      ]_vars

\* An unauthorized decide was refused after a decision had been saved.
C10_Witness ==
    /\ res.op = "holidays/decide"
    /\ res.status = 403
    /\ ~ActorIsApprover(req.actorEmail, req.db)
    /\ notifications # <<>>

(***************************************************************************)
(* Claims on updates and on the two add paths (Spec), and on intervals     *)
(* whose end is their start (SpecResolverAll).                             *)
(***************************************************************************)
\* C21: on an update the row with the entryId is left out of the comparison:
\* an update of a row with its current times, or with times that overlap its
\* old times and no other row of its employee and day, succeeds.
C21_UpdateIgnoresOwnRow ==
    [][ (/\ res'.op = "save-shift"
         /\ req' \in ValidShiftRequests
         /\ req'.entryId # 0
         /\ \E r \in rota : /\ r.id = req'.entryId
                             /\ SameKey(r, req')
                             /\ LinearOverlap(req', r)
         /\ \A o \in RowsOfKey(rota, req'.name, req'.lastName, req'.day) :
               o.id # req'.entryId => ~LinearOverlap(req', o))
        => res'.status = 200 ]_vars

\* C27: an interval whose end is its start is a wrapping interval of 24
\* hours: a candidate or an existing row of that kind conflicts whenever the
\* linearized intervals overlap.
C27_ZeroLengthWraps ==
    (/\ verdict.decided
     /\ (cand.startTime = cand.endTime
         \/ ClockMinutes(exist.startTime) = ClockMinutes(exist.endTime))
     /\ LinearOverlap(cand, exist))
        => verdict.forward

\* C29: an update is validated against the name, lastName and day its row
\* has: after a successful update the updated row is in conflict with no
\* other row of its stored key, whatever key the request carried, and the
\* update changed nothing but startTime, endTime, wage and designation of
\* that row.
C29_UpdateCheckedAgainstStoredKey ==
    [][ (/\ res'.op = "save-shift"
         /\ res'.status = 200
         /\ req' \in ValidShiftRequests
         /\ req'.entryId # 0)
        => /\ \A u \in rota' : \A o \in rota' :
                 (u.id = req'.entryId /\ o.id # u.id /\ SameKey(u, o))
                 => ~ShiftOverlaps(Substring05(u.startTime), Substring05(u.endTime), o)
           /\ \A r \in rota : r.id # req'.entryId => r \in rota'
           /\ \A u \in rota' :
                 \/ u \in rota
                 \/ /\ u.id = req'.entryId
                    /\ \E r \in rota : r.id = u.id /\ SameKey(r, u) ]_vars

\* C30: save-shift without entryId and add-another-shift decide alike: for
\* every rota and every valid candidate, the path that handled the request
\* inserted the shift exactly when the other path would have.
C30_AddPathsAgree ==
    [][ (/\ req' \in ValidAddRequests
         /\ res'.op \in AddOps
         /\ res'.status \in {200, 400})
        => LET existingShifts == ShiftsOf(rota, req'.name, req'.lastName, req'.day)
           IN  IF res'.op = "save-shift"
               THEN (res'.status = 200)
                    <=> ~(\/ AddAnotherMaxReached(existingShifts)
                          \/ AddAnotherRejectsOverlap(req', existingShifts))
               ELSE (res'.status = 200)
                    <=> ~(\/ SaveShiftMaxReached(existingShifts)
                          \/ SaveShiftRejectsOverlap(req', existingShifts)) ]_vars

(***************************************************************************)
(* Claim on the id-allocation loop (Spec).                                 *)
(***************************************************************************)
\* The row a request asks to insert, with the given id.
RequestedRow(rq, id) ==
    RotaRow(id, rq.name, rq.lastName, rq.day,
            rq.startTime \o <<Colon, Digit0, Digit0>>,
            rq.endTime \o <<Colon, Digit0, Digit0>>, rq.wage, rq.designation)

\* C12: the id loop of save-shift and add-another-shift draws and probes at
\* most 10 ids; it stops at the first drawn id no rota row has and the row
\* is inserted with that id; when all 10 drawn ids are in use the request is
\* answered with a server fault (500) and no row is inserted.
C12_AllocationBoundedByTen ==
    [][ (res'.op \in AddOps /\ idProbe'.draws # <<>>)
        => LET draws == idProbe'.draws
               used == {r.id : r \in rota}
               n == Len(draws)
           IN  /\ n <= 10
               /\ \A i \in 1..(n - 1) : draws[i] \in used
               /\ IF draws[n] \in used
                  THEN /\ n = 10
                       /\ res'.status = 500
                       /\ rota' = rota
                  ELSE /\ res'.status = 200
                       /\ res'.id = draws[n]
                       /\ rota' = rota \cup {RequestedRow(req', draws[n])}
      ]_vars

\* Ten draws collided and the request was answered with the server fault.
C12_Witness ==
    /\ res.op \in AddOps
    /\ res.status = 500
    /\ Len(idProbe.draws) = 10
    /\ \A i \in 1..10 : \E r \in rota : r.id = idProbe.draws[i]

(***************************************************************************)
(* Claims on the accrual (SpecAccrual).  A day of the calendar is the      *)
(* number of whole days since 1970-01-01.                                  *)
(***************************************************************************)
DayOf(ticks) == ticks \div TicksPerDay
WindowDays(w) == w.end - w.start + 1

\* C13: for every allowance >= 0, window and today, 0 <= accrued <= allowance.
C13_AccruedWithinAllowance ==
    accrual.computed
    => /\ accrual.accrued1.den > 0
       /\ accrual.accrued1.num >= 0
       /\ accrual.accrued1.num <= accrual.allowanceDays * accrual.accrued1.den

\* Part of the allowance is accrued: today is inside the window.
C13_Witness ==
    /\ accrual.computed
    /\ accrual.accrued1.num > 0
    /\ accrual.accrued1.num < accrual.allowanceDays * accrual.accrued1.den

\* C14: for a fixed allowance and window, accrued does not decrease as today
\* moves on, and for every today after the end of the window it is the
\* allowance.
C14_AccruedMonotonic ==
    accrual.computed
    => /\ accrual.today1 <= accrual.today2
          => accrual.accrued1.num * accrual.accrued2.den
             <= accrual.accrued2.num * accrual.accrued1.den
       /\ DayOf(accrual.today2) > accrual.window.end
          => accrual.accrued2.num = accrual.allowanceDays * accrual.accrued2.den

\* Two days of the window: the later one has accrued strictly more.
C14_Witness ==
    /\ accrual.computed
    /\ accrual.today1 < accrual.today2
    /\ DayOf(accrual.today2) <= accrual.window.end
    /\ accrual.accrued1.num * accrual.accrued2.den
       < accrual.accrued2.num * accrual.accrued1.den

\* C15: on the k-th day of a window of N days accrued * N = allowance * k;
\* before the window accrued is 0; allowance 28 on day 183 of a window of
\* 366 days gives 14.
C15_AccruedIsLinear ==
    accrual.computed
    => LET k == DayOf(accrual.today1) - accrual.window.start + 1
           N == WindowDays(accrual.window)
       IN  /\ (k >= 1 /\ k <= N)
              => accrual.accrued1.num * N
                 = accrual.allowanceDays * k * accrual.accrued1.den
           /\ k < 1 => accrual.accrued1.num = 0
           /\ (accrual.allowanceDays = 28 /\ k = 183 /\ N = 366)
              => accrual.accrued1.num = 14 * accrual.accrued1.den

\* Allowance 28, window 2024-01-01 to 2024-12-31, today 2024-07-01.
C15_Witness ==
    /\ accrual.computed
    /\ accrual.allowanceDays = 28
    /\ accrual.window = Window(DayNumber(2024, 1, 1), DayNumber(2024, 12, 31))
    /\ DayOf(accrual.today1) = DayNumber(2024, 7, 1)
    /\ accrual.accrued1.num = 14 * accrual.accrued1.den

(***************************************************************************)
(* Claims on the holiday overview (SpecLeave).  overview is the answer to  *)
(* GET /holidays for the tables as they are; accruedDays, remainingYearDays*)
(* and availableNowDays are in hundredths of a day.                        *)
(***************************************************************************)
OverviewYears == {overview.years[i] : i \in 1..Len(overview.years)}

\* The rows of the employee the overview is about.
OverviewRows ==
    {h \in holiday : /\ h.name = overview.employee.name
                     /\ h.lastName = overview.employee.lastName}

\* The dates a holiday of the model starts on, as <<year, month, day>>, and
\* the rows whose stored start date names a day of window w.
LeaveStartDates == {<<2024, 2, 5>>, <<2023, 12, 28>>, <<2025, 3, 3>>, <<2024, 2, 9>>}

StartsOn(h, date) ==
    /\ Len(h.startDate) >= 10
    /\ SubSeq(h.startDate, 1, 10) = SlashDate(date[1], date[2], date[3])

RowsOfWindow(w) ==
    {h \in OverviewRows :
        \E date \in LeaveStartDates :
            /\ StartsOn(h, date)
            /\ DayNumber(date[1], date[2], date[3]) >= w.start
            /\ DayNumber(date[1], date[2], date[3]) <= w.end}

RECURSIVE SumOfDays(_)
SumOfDays(rows) ==
    IF rows = {} THEN 0
    ELSE LET h == CHOOSE x \in rows : TRUE IN h.days + SumOfDays(rows \ {h})

\* C16: for every bucket of GET /holidays, 0 <= availableNowDays <=
\* allowanceDays and remainingYearDays >= 0.
C16_BalancesWithinAllowance ==
    overview.success
    => \A y \in OverviewYears :
          /\ y.availableNowDays >= 0
          /\ y.availableNowDays <= 100 * y.allowanceDays
          /\ y.remainingYearDays >= 0

\* More paid days are taken in a year than the allowance has.
C16_Witness ==
    /\ overview.success
    /\ \E y \in OverviewYears :
          /\ y.takenPaidDays > y.allowanceDays
          /\ y.availableNowDays = 0
          /\ y.remainingYearDays = 0

\* C17: whenever a configured holiday year contains today, currentYearKey is
\* the key of that year, whether or not a request of the employee starts in
\* it; and the years are ordered by start, the latest first.
C17_CurrentYearIsTodaysWindow ==
    overview.success
    => /\ \A w \in HolidayYearSettings :
             (clock >= StartOfDay(w.start) /\ clock <= EndOfDay(w.end))
             => overview.currentYearKey = YearKey(w.start, w.end)
       /\ \A i \in 1..Len(overview.years) : \A j \in 1..Len(overview.years) :
             i < j => overview.years[i].start > overview.years[j].start

\* The list the rule of the specification puts a row in.
ListByRule(h) ==
    IF h.accepted = "false" THEN "declined"
    ELSE IF h.who # <<>> THEN "approved"
    ELSE "pending"

ItemOf(h) ==
    [startDate |-> h.startDate, endDate |-> h.endDate, days |-> h.days,
     who |-> h.who, notes |-> h.notes]

ItemsOf(list) ==
    {[startDate |-> list[i].startDate, endDate |-> list[i].endDate,
      days |-> list[i].days, who |-> list[i].who, notes |-> list[i].notes] :
        i \in 1..Len(list)}

\* C18: every row whose start date is in a configured window is in exactly
\* one bucket, the one of that window, and in exactly one of its lists:
\* declined if accepted = "false", else approved if who is not empty, else
\* pending; and the five counters of a bucket add up to the days of the
\* rows of its window.
C18_EveryRowInOneList ==
    overview.success
    => /\ \A w \in HolidayYearSettings :
             LET rows == RowsOfWindow(w)
                 buckets == {y \in OverviewYears : y.key = YearKey(w.start, w.end)}
                 OfList(name) == {h \in rows : ListByRule(h) = name}
             IN  rows # {}
                 => /\ Cardinality(buckets) = 1
                    /\ Cardinality({i \in 1..Len(overview.years) :
                           overview.years[i].key = YearKey(w.start, w.end)}) = 1
                    /\ \A y \in buckets :
                          /\ Len(y.declinedHolidays) = Cardinality(OfList("declined"))
                          /\ Len(y.approvedHolidays) = Cardinality(OfList("approved"))
                          /\ Len(y.pendingHolidays) = Cardinality(OfList("pending"))
                          /\ ItemsOf(y.declinedHolidays)
                             = {ItemOf(h) : h \in OfList("declined")}
                          /\ ItemsOf(y.approvedHolidays)
                             = {ItemOf(h) : h \in OfList("approved")}
                          /\ ItemsOf(y.pendingHolidays)
                             = {ItemOf(h) : h \in OfList("pending")}
                          /\ y.takenPaidDays + y.takenUnpaidDays + y.pendingPaidDays
                             + y.pendingUnpaidDays + y.declinedDays
                             = SumOfDays(rows)
       /\ \A y \in OverviewYears :
             \E w \in HolidayYearSettings :
                 y.key = YearKey(w.start, w.end) /\ RowsOfWindow(w) # {}

\* A bucket that holds a declined row and another row.
C18_Witness ==
    /\ overview.success
    /\ \E y \in OverviewYears :
          /\ Len(y.declinedHolidays) = 1
          /\ Len(y.approvedHolidays) + Len(y.pendingHolidays) = 1
          /\ y.declinedDays > 0
          /\ y.declinedDays < y.takenPaidDays + y.takenUnpaidDays + y.pendingPaidDays
                              + y.pendingUnpaidDays + y.declinedDays

\* The requests for leave the employee of the overview has made, read from
\* the notifications they raised.
RequestedTypes ==
    {ToLowerCase(notifications[i].message.type) :
        i \in {j \in 1..Len(notifications) :
                  /\ notifications[j].title = "New Holiday Request"
                  /\ notifications[j].message.name = overview.employee.name
                  /\ notifications[j].message.lastName = overview.employee.lastName}}

\* C19: unpaid leave asked for through /holidays/request and approved through
\* /holidays/decide is counted in takenUnpaidDays and not in takenPaidDays:
\* an employee who has asked for unpaid leave only has no paid day taken, and
\* the balances of every year are those of a year without requests.
C19_UnpaidLeaveKeepsAllowance ==
    (overview.success /\ RequestedTypes = {"unpaid"})
    => \A y \in OverviewYears :
          /\ y.takenPaidDays = 0
          /\ y.remainingYearDays = 100 * y.allowanceDays
          /\ y.availableNowDays = Min2(y.accruedDays, 100 * y.allowanceDays)

(***************************************************************************)
(* Claims on the ids of rota rows and shift requests (SpecShiftRequests).  *)
(***************************************************************************)
\* C11: the id a save-shift or add-another-shift gives a new rota row is, when
\* the handler runs, the id of no rota row and of no ShiftRequests row; so a
\* rota row and a ShiftRequests row with the same id are always a request
\* and the shift its accept inserted.
C11_IdsFreshInBothTables ==
    [][ /\ (res'.op \in AddOps /\ res'.status = 200)
           => /\ res'.id \notin {r.id : r \in rota}
              /\ res'.id \notin {q.id : q \in shiftRequests}
        /\ \A r \in rota' : \A q \in shiftRequests' :
              r.id = q.id
              => /\ q.status = "accepted"
                 /\ r.day = q.day_label
                 /\ r.startTime = q.start_time
                 /\ r.endTime = q.end_time
      ]_vars

\* C20: every failure inside a handler is answered by the handler with an
\* error result: no request is left without answer by a rejection that
\* escapes the handler.
C20_NoErrorEscapes ==
    res.op # "none" => res.status \in {200, 400, 403, 404, 409, 500}

\* C26: the id allocation for a new shift request stops after at most 10
\* attempts: no shift request is answered after more than 10 draws.
C26_RequestIdAllocationBounded ==
    (res.op = "rota/shift-request" /\ idProbe.draws # <<>>)
        => Len(idProbe.draws) <= 10

\* C28: an accept keeps the registry invariant of the accepting employee:
\* after it the employee has at most 2 rows on the day of the accepted shift
\* and the accepted shift overlaps none of the employee's other rows of
\* that day.
C28_AcceptKeepsRegistryInvariant ==
    [][ (res'.op = "rota/shift-request/accept" /\ res'.status = 200)
        => \A a \in rota' :
              a.id = res'.id
              => /\ Cardinality(RowsOfKey(rota', a.name, a.lastName, a.day)) <= 2
                 /\ \A o \in rota' :
                       (o # a /\ SameKey(o, a)) => ~LinearOverlap(a, o) ]_vars

(***************************************************************************)
(* Claims on the accept handler run step by step (SpecAccept).             *)
(***************************************************************************)
\* C24: of the accepts of one shift request id at most one reports success
\* and the rota holds at most one row with that id; an accept whose lock
\* query returns after another accept of the id succeeded observes a status
\* other than 'pending', answers 409 and writes nothing.
C24_OneAcceptWins ==
    [][ \A id \in Ids :
          /\ Cardinality({p \in Procs : /\ inflight'[p].rq.id = id
                                        /\ inflight'[p].status = 200}) <= 1
          /\ Cardinality({r \in rota' : r.id = id}) <= 1
          /\ \A p \in Procs :
                (/\ inflight[p].pc = "begin"
                 /\ inflight'[p].pc # "begin"
                 /\ inflight'[p].failedAt # "begin"
                 /\ inflight[p].rq.id = id
                 /\ \E q \in Procs \ {p} : /\ inflight[q].rq.id = id
                                           /\ inflight[q].status = 200)
                => /\ inflight'[p].pc = "done"
                   /\ inflight'[p].status = 409
                   /\ inflight'[p].reqRows # {}
                   /\ \A q \in inflight'[p].reqRows : q.status # "pending"
                   /\ inflight'[p].txRequests = {}
                   /\ inflight'[p].txRota = {}
                   /\ rota' = rota
                   /\ shiftRequests' = shiftRequests ]_vars

\* One accept of request 1 succeeded and another one, locking the row after
\* it, read the status 'accepted' and answered 409.
C24_Witness ==
    \E p \in Procs : \E q \in Procs \ {p} :
        /\ inflight[p].rq.id = 1
        /\ inflight[q].rq.id = 1
        /\ inflight[p].status = 200
        /\ inflight[q].status = 409
        /\ \E x \in inflight[q].reqRows : x.status = "accepted"
        /\ Cardinality({r \in rota : r.id = 1}) = 1

\* C25: an accept is all or nothing: a step of the handler either leaves
\* ShiftRequests and rota as they are and reports no success, or it is the
\* commit of a successful accept, which sets the request's status to
\* 'accepted' and adds to rota one row with the request's id, day label and
\* times and the accepting employee's name.
C25_AcceptAllOrNothing ==
    [][ \/ /\ shiftRequests' = shiftRequests
           /\ rota' = rota
           /\ \A p \in Procs : inflight'[p].status = 200 => inflight[p].status = 200
        \/ \E p \in Procs :
              LET rq == inflight[p].rq
                  email == ToLowerCase(Trim(rq.userEmail))
              IN  /\ inflight[p].status # 200
                  /\ inflight'[p].status = 200
                  /\ \E q \in shiftRequests : \E e \in Employees :
                        /\ q.id = rq.id
                        /\ q.status = "pending"
                        /\ ToLowerCase(Trim(e.email)) = email
                        /\ shiftRequests' =
                              (shiftRequests \ {q})
                                  \cup {[q EXCEPT !.status = "accepted",
                                                  !.accepted_by_email = email]}
                        /\ \E r \in rota' :
                              /\ r \notin rota
                              /\ rota' = rota \cup {r}
                              /\ r.id = rq.id
                              /\ r.day = q.day_label
                              /\ r.startTime = q.start_time
                              /\ r.endTime = q.end_time
                              /\ r.name = Trim(e.name)
                              /\ r.lastName = Trim(e.lastName) ]_vars

\* One accept failed with a database error after its UPDATE, and the tables
\* hold no trace of it; another accept succeeded.
C25_Witness ==
    \E p \in Procs : \E q \in Procs \ {p} :
        /\ inflight[p].status = 500
        /\ inflight[p].failedAt \in {"updated", "inserted"}
        /\ \A x \in shiftRequests : x.id = inflight[p].rq.id => x.status = "pending"
        /\ \A r \in rota : r.id # inflight[p].rq.id
        /\ inflight[q].status = 200
        /\ \E r \in rota : r.id = inflight[q].rq.id

(***************************************************************************)
(* Claim on the decide handler run step by step (SpecDecide).              *)
(***************************************************************************)
\* C23: of the decisions in flight on one pending holiday id at most one
\* reports success and writes the row: no two requests for the same id have
\* both passed the UPDATE.
C23_OneDecisionWins ==
    \A p \in Procs : \A q \in Procs \ {p} :
        ~ /\ inflight[p].rq.id = inflight[q].rq.id
          /\ inflight[p].pc = "done"
          /\ inflight[p].status = 200
          /\ \/ inflight[q].pc = "updated"
             \/ inflight[q].pc = "done" /\ inflight[q].status = 200

(***************************************************************************)
(* Claim on save-shift adds run step by step (SpecAdd).                    *)
(***************************************************************************)
\* C22: whatever the interleaving of the adds in flight for one (name,
\* lastName, day), the rota holds at most 2 rows for the key and no two of
\* its rows overlap.
C22_InterleavedAddsKeepRegistry ==
    \A r \in rota :
        /\ Cardinality(RowsOfKey(rota, r.name, r.lastName, r.day)) <= 2
        /\ \A o \in rota : (o # r /\ SameKey(o, r)) => ~LinearOverlap(r, o)

====
